---- MODULE Spec2Model ----
(***************************************************************************)
(* FB Content Blocker: the content-filtering engine of src/content.js      *)
(* (lines 1-661, the current content script): text normalisation, the      *)
(* KeywordMatcher, the debounced MutationObserver loop, and the per-node   *)
(* hide / reveal / reset state machine.                                    *)
(*                                                                         *)
(* Text is a sequence of character tokens.  An ASCII character is the      *)
(* one-character string; a non-ASCII character is named by its code point  *)
(* ("U+0110").  Str turns an ASCII string into such a sequence.            *)
(***************************************************************************)
EXTENDS Integers, Sequences, FiniteSets, TLC

Str(s) == [i \in 1..Len(s) |-> SubSeq(s, i, i)]

NULL == "null"

\* Bounds of the model (not program constants): the handlers that may be
\* suspended at once, and how many times the page rewrites a text and the
\* user changes the configuration in one run.
MaxInflight == 1
MaxTextChanges == 2
MaxConfigChanges == 1
\* Bounds of the matcher's own specification: the length of a probed text
\* and of a rule set or whitelist.
MaxProbeLen == 3
MaxMatcherRules == 2
MaxMatcherWhitelist == 1

(***************************************************************************)
(* Characters                                                              *)
(***************************************************************************)
UpperChars == Str("ABCDEFGHIJKLMNOPQRSTUVWXYZ")
LowerChars == Str("abcdefghijklmnopqrstuvwxyz")
DigitChars == Str("0123456789")

Range(f) == {f[i] : i \in DOMAIN f}
UpperSet == Range(UpperChars)
AlnumSet == Range(UpperChars) \cup Range(LowerChars) \cup Range(DigitChars)

IndexOf(c, s) == CHOOSE i \in DOMAIN s : s[i] = c

\* Canonical decomposition (NFD) with the combining marks U+0300-U+036F
\* already removed: the base letter of a precomposed Vietnamese letter.
\* U+0110 / U+0111 (D / d with stroke) do not decompose; U+212A (Kelvin
\* sign) decomposes to K.
BaseOf == [c \in {"U+00C0", "U+00E0", "U+1EA1", "U+1EA5", "U+1EC1", "U+1EBF", "U+1ED9",
                  "U+1EE3", "U+01B0", "U+212A"} |->
             CASE c = "U+00E0" -> "a"       \* a grave
               [] c = "U+00C0" -> "A"       \* A grave
               [] c = "U+212A" -> "K"       \* Kelvin sign
               [] c = "U+1EA1" -> "a"       \* a dot below
               [] c = "U+1EA5" -> "a"       \* a circumflex acute
               [] c = "U+1EC1" -> "e"       \* e circumflex grave
               [] c = "U+1EBF" -> "e"       \* e circumflex acute
               [] c = "U+1ED9" -> "o"       \* o circumflex dot below
               [] c = "U+1EE3" -> "o"       \* o horn dot below
               [] c = "U+01B0" -> "u"]      \* u horn

\* String.prototype.toLowerCase on one character.
toLowerCase(c) ==
    IF c \in UpperSet THEN LowerChars[IndexOf(c, UpperChars)]
    ELSE IF c = "U+0110" THEN "U+0111"
    ELSE IF c = "U+212A" THEN "k"
    ELSE c

\* Characters of the block U+0300-U+036F: grave, acute, horn, dot below.
\* Canonical decomposition leaves them as they are (and may reorder them).
CombiningMarks == {"U+0300", "U+0301", "U+031B", "U+0323"}

\* normalizeText on one character without the toLowerCase step.
NormalizeCharKeepCase(c) ==
    LET nfd == IF c \in DOMAIN BaseOf THEN BaseOf[c] ELSE c
        d1  == IF nfd = "U+0111" THEN "d" ELSE nfd
    IN  IF d1 = "U+0110" THEN "D" ELSE d1

\* normalizeText on one character that is not a combining mark: NFD, strip
\* marks, lower-case, then the two stroke replacements in the order the
\* code applies them.
NormalizeChar(c) ==
    LET nfd   == IF c \in DOMAIN BaseOf THEN BaseOf[c] ELSE c
        lower == toLowerCase(nfd)
        d1    == IF lower = "U+0111" THEN "d" ELSE lower
    IN  IF d1 = "U+0110" THEN "D" ELSE d1

\* normalizeText: the combining marks of the text itself go with those of
\* the decompositions.
normalizeText(text) ==
    LET kept == SelectSeq(text, LAMBDA c : c \notin CombiningMarks)
    IN  [i \in 1..Len(kept) |-> NormalizeChar(kept[i])]

\* String.prototype.includes
Includes(text, pat) ==
    \E p \in 1..(Len(text) - Len(pat) + 1) :
        \A k \in 1..Len(pat) : text[p + k - 1] = pat[k]

\* String.prototype.trim (the only white space of the model is " ").
RECURSIVE TrimLeft(_)
TrimLeft(t) == IF t # <<>> /\ Head(t) = " " THEN TrimLeft(Tail(t)) ELSE t
RECURSIVE TrimRight(_)
TrimRight(t) ==
    IF t # <<>> /\ t[Len(t)] = " " THEN TrimRight(SubSeq(t, 1, Len(t) - 1)) ELSE t
Trim(t) == TrimRight(TrimLeft(t))

BUILT_IN_ADS_PATTERNS ==
    << <<"U+0110", "U+01B0", "U+1EE3", "c", " ", "t", "U+00E0", "i", " ", "t", "r", "U+1EE3">>,
       <<"U+0110", "U+1EC1", " ", "x", "u", "U+1EA5", "t", " ", "c", "h", "o", " ", "b", "U+1EA1", "n">>,
       Str("B") \o <<"U+00E0">> \o Str("i vi") \o <<"U+1EBF">> \o Str("t ")
          \o <<"U+0111", "U+01B0", "U+1EE3", "c", " ", "t", "U+00E0", "i", " ", "t", "r", "U+1EE3">>,
       Str("N") \o <<"U+1ED9">> \o Str("i dung ")
          \o <<"U+0111", "U+01B0", "U+1EE3", "c", " ", "t", "U+00E0", "i", " ", "t", "r", "U+1EE3">>,
       Str("Sponsored"),
       Str("Suggested for you"),
       Str("Paid partnership"),
       Str("Duoc tai tro"),
       Str("De xuat cho ban") >>

(***************************************************************************)
(* Regular expressions.  A compiled RegExp keeps its source; `bounded'     *)
(* says the source is wrapped in (?<![a-zA-Z0-9])(?: ... )(?![a-zA-Z0-9]). *)
(* The interpreter covers the sources the model's rules produce: literal   *)
(* characters, identity escapes of syntax characters, "." and top-level    *)
(* alternation.  Every RegExp of the engine carries the flags "giu".       *)
(***************************************************************************)
SyntaxChars == Range(Str(".*+?^${}()|[]\\"))

\* A literal text handed to the RegExp source as it is.
EscapeRegExpNone(text) == text

\* text.replace(/[.*+?^${}()|[\]\\]/g, '\\$&')
RECURSIVE EscapeRegExp(_)
EscapeRegExp(text) ==
    IF \A i \in 1..Len(text) : text[i] \notin SyntaxChars THEN text
    ELSE (IF Head(text) \in SyntaxChars THEN <<"\\", Head(text)>> ELSE <<Head(text)>>)
         \o EscapeRegExp(Tail(text))

\* Array.prototype.join('|')
RECURSIVE JoinBar(_)
JoinBar(srcs) ==
    IF srcs = <<>> THEN <<>>
    ELSE IF Len(srcs) = 1 THEN srcs[1]
    ELSE LET h == Len(srcs) \div 2
         IN  JoinBar(SubSeq(srcs, 1, h)) \o <<"|">> \o JoinBar(SubSeq(srcs, h + 1, Len(srcs)))

Lit(c) == [kind |-> "lit", ch |-> c]
AnyChar == [kind |-> "any", ch |-> "."]

\* The parse of a source: its alternatives, each a sequence of atoms, or a
\* SyntaxError.  alts is the list of finished alternatives, cur the one
\* being read.
RECURSIVE ParseFrom(_, _, _, _)
ParseFrom(src, i, alts, cur) ==
    IF i > Len(src) THEN [ok |-> TRUE, alts |-> Append(alts, cur)]
    ELSE LET c == src[i] IN
         IF c = "\\"
           THEN IF i < Len(src) /\ src[i + 1] \in SyntaxChars
                  THEN ParseFrom(src, i + 2, alts, Append(cur, Lit(src[i + 1])))
                  ELSE [ok |-> FALSE, alts |-> <<>>]
         ELSE IF c = "|" THEN ParseFrom(src, i + 1, Append(alts, cur), <<>>)
         ELSE IF c = "." THEN ParseFrom(src, i + 1, alts, Append(cur, AnyChar))
         ELSE IF c \in SyntaxChars THEN [ok |-> FALSE, alts |-> <<>>]
         ELSE ParseFrom(src, i + 1, alts, Append(cur, Lit(c)))

\* The number of "\\" that end at position i of the source.
RECURSIVE BackslashRun(_, _)
BackslashRun(src, i) ==
    IF i >= 1 /\ src[i] = "\\" THEN 1 + BackslashRun(src, i - 1) ELSE 0

\* The parse of a source.  A long source is parsed in two parts, cut
\* between two characters that no escape joins, and the alternative the cut
\* went through is put together again.
ParseChunk == 16
RECURSIVE Parse(_)
Parse(src) ==
    IF \A i \in 1..Len(src) : src[i] \notin SyntaxChars
      THEN [ok |-> TRUE, alts |-> <<[i \in 1..Len(src) |-> Lit(src[i])]>>]
    ELSE IF Len(src) <= ParseChunk THEN ParseFrom(src, 1, <<>>, <<>>)
    ELSE LET h   == Len(src) \div 2
             cut == IF BackslashRun(src, h) % 2 = 1 THEN h + 1 ELSE h
             l   == Parse(SubSeq(src, 1, cut))
             r   == Parse(SubSeq(src, cut + 1, Len(src)))
         IN  IF ~l.ok \/ ~r.ok THEN [ok |-> FALSE, alts |-> <<>>]
             ELSE [ok |-> TRUE,
                   alts |-> SubSeq(l.alts, 1, Len(l.alts) - 1)
                            \o <<l.alts[Len(l.alts)] \o r.alts[1]>>
                            \o Tail(r.alts)]

\* new RegExp(source, 'giu'); lastIndex starts at 0.
NewRegExp(source, isBounded) ==
    [src |-> source, bounded |-> isBounded, isNull |-> FALSE, lastIndex |-> 0]

\* The value of a RegExp field that holds null.
NoRegExp == [src |-> <<>>, bounded |-> FALSE, isNull |-> TRUE, lastIndex |-> 0]

\* Canonicalize of a RegExp with the flags i and u: the simple case folding
\* of Unicode's CaseFolding.txt.  Besides the upper-case letters it folds
\* U+212A (Kelvin sign) to k and U+017F (long s) to s.
Canonicalize(c) ==
    IF c \in UpperSet THEN LowerChars[IndexOf(c, UpperChars)]
    ELSE IF c = "U+0110" THEN "U+0111"
    ELSE IF c = "U+212A" THEN "k"
    ELSE IF c = "U+017F" THEN "s"
    ELSE c

\* The class [a-zA-Z0-9] of the two look-arounds, as a RegExp with the
\* flags i and u matches it: on canonicalized characters.
AlnumFolded == {Canonicalize(a) : a \in AlnumSet}
ClassAlnumMatches(c) == Canonicalize(c) \in AlnumFolded

AtomMatches(atom, c) ==
    \/ atom.kind = "any"
    \/ atom.kind = "lit" /\ Canonicalize(atom.ch) = Canonicalize(c)

\* The alternative alt of a RegExp matches the text from position pos on;
\* bounded says the two look-arounds on [a-zA-Z0-9] surround the source.
AltMatchesAt(alt, bounded, text, pos) ==
    LET last == pos + Len(alt) - 1
    IN  /\ last <= Len(text)
        /\ \A k \in 1..Len(alt) : AtomMatches(alt[k], text[pos + k - 1])
        /\ bounded =>
             /\ pos = 1 \/ ~ClassAlnumMatches(text[pos - 1])
             /\ last = Len(text) \/ ~ClassAlnumMatches(text[last + 1])

\* RegExp.prototype.test with lastIndex = 0: a match anywhere in the text.
RegExpTest(re, text) ==
    \E p \in {Parse(re.src)} :
    /\ p.ok
    /\ \E a \in 1..Len(p.alts) : \E pos \in 1..(Len(text) + 1) :
         AltMatchesAt(p.alts[a], re.bounded, text, pos)

\* RegExp.prototype.test of a RegExp with the flag g: the search starts at
\* lastIndex, a match leaves lastIndex behind its last character and a
\* failure leaves it 0.  The result and the RegExp afterwards.
RegExpExec(re, text) ==
    LET p      == Parse(re.src)
        starts == {pos \in (re.lastIndex + 1)..(Len(text) + 1) :
                      \E a \in 1..Len(p.alts) : AltMatchesAt(p.alts[a], re.bounded, text, pos)}
    IN  IF ~p.ok \/ re.lastIndex > Len(text) \/ starts = {}
          THEN [result |-> FALSE, re |-> [re EXCEPT !.lastIndex = 0]]
          ELSE LET pos == CHOOSE q \in starts : \A r \in starts : q <= r
                   a   == CHOOSE i \in 1..Len(p.alts) :
                              /\ AltMatchesAt(p.alts[i], re.bounded, text, pos)
                              /\ \A j \in 1..(i - 1) :
                                     ~AltMatchesAt(p.alts[j], re.bounded, text, pos)
               IN  [result |-> TRUE,
                    re |-> [re EXCEPT !.lastIndex = pos - 1 + Len(p.alts[a])]]

(***************************************************************************)
(* KeywordMatcher.  A rule is [text, isRegex]; a whitelist entry is a rule *)
(* whose text alone is read.                                               *)
(***************************************************************************)
MAX_KEYWORDS == 5000
MAX_PATTERN_SIZE == 1048576

\* Length of "(?<![a-zA-Z0-9])(?:" plus ")(?![a-zA-Z0-9])".
WrapperLen == 35

Rule(t, re) == [text |-> t, isRegex |-> re]

Min(a, b) == IF a < b THEN a ELSE b

\* The loop over safeKeywords with a SyntaxError that leaves the loop: the
\* pattern rules behind the first one that does not compile are lost.
CompilePatternsUntilError(kws) ==
    LET rules == SelectSeq(kws, LAMBDA kw : kw.isRegex)
        bad   == {i \in 1..Len(rules) : ~Parse(rules[i].text).ok}
        upto  == IF bad = {} THEN Len(rules)
                 ELSE (CHOOSE i \in bad : \A j \in bad : i <= j) - 1
    IN  [i \in 1..upto |-> NewRegExp(rules[i].text, FALSE)]

\* The RegExps of the pattern rules that compile, in rule order (a
\* SyntaxError is caught and the rule skipped).
CompilePatterns(kws) ==
    LET rules == SelectSeq(kws, LAMBDA kw : kw.isRegex /\ Parse(kw.text).ok)
    IN  [i \in 1..Len(rules) |-> NewRegExp(rules[i].text, FALSE)]

\* The escaped texts of the literal rules, in rule order.
PlainKeywords(kws) ==
    LET rules == SelectSeq(kws, LAMBDA kw : ~kw.isRegex)
    IN  [i \in 1..Len(rules) |-> EscapeRegExp(rules[i].text)]

\* A compile that reads every rule of the rule set.
AllKeywords(keywords) == keywords

\* this.keywords.slice(0, MAX_KEYWORDS)
SafeKeywords(keywords) == SubSeq(keywords, 1, Min(Len(keywords), MAX_KEYWORDS))

\* A compile that builds the merged literal RegExp whatever its size.
AnyPatternSize(pattern) == TRUE

\* !(pattern.length > MAX_PATTERN_SIZE), the pattern being the joined
\* literal texts inside the two look-arounds
FitsPatternSize(pattern) == WrapperLen + Len(pattern) <= MAX_PATTERN_SIZE

\* A KeywordMatcher whose fields hold nothing compiled.
NewMatcher(keywords, whitelist) ==
    [keywords |-> keywords, whitelist |-> whitelist, threw |-> FALSE,
     compiledRegex |-> NoRegExp, regexPatterns |-> <<>>, whitelistRegex |-> NoRegExp]

\* The three assignments compile() begins with.
ResetCompiled(m) ==
    [m EXCEPT !.threw = FALSE, !.compiledRegex = NoRegExp, !.regexPatterns = <<>>,
              !.whitelistRegex = NoRegExp]

\* compile() behind its early return: the fields are assigned one after
\* the other, and a field compile does not reach keeps the value it has.
\* threw says a new RegExp outside the try block (the merged literal
\* pattern, the whitelist) raised a SyntaxError, which leaves compile with
\* the fields assigned so far.
CompileFields(m) ==
    LET safeKeywords == SafeKeywords(m.keywords)
        plain   == PlainKeywords(safeKeywords)
        pattern == JoinBar(plain)
        fits    == Len(plain) > 0 /\ FitsPatternSize(pattern)
        wl      == [i \in 1..Len(m.whitelist) |-> EscapeRegExp(m.whitelist[i].text)]
        badLiteral   == fits /\ ~Parse(pattern).ok
        badWhitelist == Len(m.whitelist) > 0 /\ ~Parse(JoinBar(wl)).ok
    IN  [m EXCEPT
           !.threw = badLiteral \/ badWhitelist,
           !.regexPatterns = @ \o CompilePatterns(safeKeywords),
           !.compiledRegex = IF fits /\ ~badLiteral THEN NewRegExp(pattern, TRUE) ELSE @,
           !.whitelistRegex =
               IF Len(m.whitelist) > 0 /\ ~badLiteral /\ ~badWhitelist
                 THEN NewRegExp(JoinBar(wl), TRUE) ELSE @]

\* A compile() that returns on an empty rule set before it has reset the
\* compiled fields.
compileReturnFirst(m) ==
    IF Len(m.keywords) = 0 THEN m ELSE CompileFields(ResetCompiled(m))

\* KeywordMatcher.compile on the matcher m, whose keywords and whitelist
\* are the ones to compile.
compile(m) ==
    IF Len(m.keywords) = 0 THEN ResetCompiled(m) ELSE CompileFields(ResetCompiled(m))

\* new KeywordMatcher(keywords, whitelist)
Compile(keywords, whitelist) == compile(NewMatcher(keywords, whitelist))

\* KeywordMatcher.matches with the whitelist test moved behind the two rule
\* tests (what the whitelist-precedence property rules out).
MatchesRulesFirst(m, text) ==
    IF text = <<>> THEN FALSE
    ELSE IF m.compiledRegex.isNull /\ Len(m.regexPatterns) = 0 THEN FALSE
    ELSE IF ~m.compiledRegex.isNull /\ RegExpTest(m.compiledRegex, text) THEN TRUE
    ELSE IF \E i \in 1..Len(m.regexPatterns) : RegExpTest(m.regexPatterns[i], text) THEN TRUE
    ELSE FALSE

\* KeywordMatcher.matches
Matches(m, text) ==
    IF text = <<>> THEN FALSE
    ELSE IF m.compiledRegex.isNull /\ Len(m.regexPatterns) = 0 THEN FALSE
    ELSE IF ~m.whitelistRegex.isNull /\ RegExpTest(m.whitelistRegex, text) THEN FALSE
    ELSE IF ~m.compiledRegex.isNull /\ RegExpTest(m.compiledRegex, text) THEN TRUE
    ELSE \E i \in 1..Len(m.regexPatterns) : RegExpTest(m.regexPatterns[i], text)

\* A test that starts where the RegExp's previous test ended.
KeepLastIndex(re) == re

\* re.lastIndex = 0
ResetLastIndex(re) == [re EXCEPT !.lastIndex = 0]

\* KeywordMatcher.matches with the RegExps' cursors: the result, the
\* matcher afterwards and the values of lastIndex its tests started with.
MatchesCall(m, text) ==
    LET skip == text = <<>> \/ (m.compiledRegex.isNull /\ Len(m.regexPatterns) = 0)
        w0 == ResetLastIndex(m.whitelistRegex)
        w  == IF skip \/ m.whitelistRegex.isNull
                THEN [result |-> FALSE, re |-> m.whitelistRegex] ELSE RegExpExec(w0, text)
        c0 == ResetLastIndex(m.compiledRegex)
        c  == IF skip \/ w.result \/ m.compiledRegex.isNull
                THEN [result |-> FALSE, re |-> m.compiledRegex] ELSE RegExpExec(c0, text)
        loop  == ~skip /\ ~w.result /\ ~c.result
        r0(i) == ResetLastIndex(m.regexPatterns[i])
        hits  == {i \in 1..Len(m.regexPatterns) : loop /\ RegExpExec(r0(i), text).result}
        upto  == IF ~loop THEN 0
                 ELSE IF hits = {} THEN Len(m.regexPatterns)
                 ELSE CHOOSE i \in hits : \A j \in hits : i <= j
    IN  [result |-> c.result \/ hits # {},
         m |-> [m EXCEPT !.whitelistRegex = w.re, !.compiledRegex = c.re,
                         !.regexPatterns = [i \in 1..Len(m.regexPatterns) |->
                             IF i <= upto THEN RegExpExec(r0(i), text).re
                             ELSE m.regexPatterns[i]]],
         starts |-> (IF skip \/ m.whitelistRegex.isNull THEN {} ELSE {w0.lastIndex})
                    \cup (IF skip \/ w.result \/ m.compiledRegex.isNull THEN {}
                          ELSE {c0.lastIndex})
                    \cup {r0(i).lastIndex : i \in 1..upto}]

\* KeywordMatcher.update
Update(m, keywords, whitelist) ==
    compile([m EXCEPT !.keywords = keywords, !.whitelist = whitelist])

\* get count()
Count(m) == Len(m.keywords)

(***************************************************************************)
(* The document.  Nodes are numbered in document order; 0 is the feed      *)
(* root (role="feed"), a landmark that is never a candidate itself.        *)
(*   1 P  div role="article"                      a post                   *)
(*   2 T  span inside P                           the post's body text     *)
(*   3 Q  div role="article" aria-label="Comment by ..." inside P          *)
(*   4 X  span under the root, an Element outside the HTML and SVG         *)
(*        namespaces: it has no dataset property                           *)
(*   5 U  div dir="auto" in ul role="list" under the root                  *)
(***************************************************************************)
Nodes == 1..5
Root == 0
Parent == <<0, 1, 1, 0, 0>>
Leaves == {2, 3, 4, 5}

\* role="article" or data-pagelet^="FeedUnit"
IsUnit == <<TRUE, FALSE, TRUE, FALSE, FALSE>>
\* whether the element has a dataset (HTMLElement, SVGElement)
HasDataset == <<TRUE, TRUE, TRUE, FALSE, TRUE>>
\* the inline style.display the page gave each element
PageDisplay == <<"", "", "block", "", "block">>

\* The nodes of this document each post selector of filterContent matches
\* (only '[role="article"]', the second, matches any).
PostSelectors == <<{}, {1, 3}, {}, {}, {}, {}, {}>>
\* '[dir="auto"], span, a'
TextNodeSelector == {2, 4, 5}
\* The nodes each comment selector of filterComments matches:
\* '[aria-label*="Comment"]' and 'ul[role="list"] div[dir="auto"]'.
CommentSelectors == <<{3}, {}, {}, {}, {}, {}, {5}, {}, {}>>

\* The texts the page gives its leaves.
Filler == [i \in 1..100 |-> "."]
TextPool == << Str("hello"), Str("buy spam"), Str("Sponsored"),
               Str("spam ") \o Filler, Str("spam ok") >>
\* which texts of the pool each leaf may carry
TextsOf == [n \in Leaves |->
              CASE n = 2 -> {1, 3}
                [] n = 3 -> {1, 5}
                [] n = 4 -> {1, 3}
                [] n = 5 -> {1, 2, 4}]

\* Every text a scan of this document can read.
KnownTexts ==
    {<<>>} \cup Range(TextPool)
    \cup {TextPool[i] \o TextPool[j] : i \in TextsOf[2], j \in TextsOf[3]}

\* The rule sets and whitelists the popup and options page may store.
RuleSets == << <<>>, <<Rule(Str("spam"), FALSE)>>, <<Rule(Str("b.y"), TRUE), Rule(Str("("), TRUE)>> >>
Whitelists == << <<>>, <<Rule(Str("Sponsored"), FALSE)>> >>

\* Every matcher the stored rules compile to.
MatcherPool ==
    {Compile(RuleSets[k], Whitelists[w]) : k \in 1..Len(RuleSets), w \in 1..Len(Whitelists)}

\* matcher.matches(text) and the built-in test, tabulated once over the
\* matchers and texts above (the scan evaluates them on every fragment).
MatchesTable == [p \in MatcherPool \X KnownTexts |-> Matches(p[1], p[2])]
matcherMatches(m, txt) ==
    IF <<m, txt>> \in DOMAIN MatchesTable THEN MatchesTable[<<m, txt>>] ELSE Matches(m, txt)

VARIABLES
    matcher,          \* the KeywordMatcher instance
    enabled, blockComments, showPlaceholder,
    debounceTimer,    \* "pending" while the timeout whose id it holds is pending
    timers,           \* the number of pending timeouts the observer has set
    phase,            \* "loading" until init() has loaded the settings
    storage,          \* chrome.storage: the stored configuration
    inflight,         \* handlers suspended at their await of chrome.storage
    text,             \* the text of each leaf (an index of TextPool)
    dom,              \* per node: attached, dataset, style.display, affordances
    textCache,        \* the fresh entries of textCache
    armed,            \* what has happened since debounceTimer was armed
    last,             \* what the latest task did
    left,             \* the text and configuration changes the run may still make
    probe             \* the latest matcher.matches call: its text and result

vars == <<matcher, enabled, blockComments, showPlaceholder, debounceTimer, timers, phase,
          storage, inflight, text, dom, textCache, armed, last, left, probe>>

(***************************************************************************)
(* DOM access                                                              *)
(***************************************************************************)
RECURSIVE InDocument(_, _)
InDocument(d, n) == IF n = Root THEN TRUE ELSE d[n].attached /\ InDocument(d, Parent[n])

RECURSIVE SortedSeq(_)
SortedSeq(S) ==
    IF S = {} THEN <<>>
    ELSE LET m == CHOOSE x \in S : \A y \in S : x <= y
         IN  <<m>> \o SortedSeq(S \ {m})

\* document.querySelectorAll: the matching nodes in the document, in order
QuerySelectorAll(d, sel) == SortedSeq({n \in sel : InDocument(d, n)})

Children(d, n) == SortedSeq({c \in Nodes : Parent[c] = n /\ d[c].attached})

RECURSIVE TextContent(_, _, _)
RECURSIVE ConcatText(_, _, _)
\* node.textContent: the node's own text, then that of its children
TextContent(d, tx, n) ==
    (IF n \in Leaves THEN TextPool[tx[n]] ELSE <<>>) \o ConcatText(d, tx, Children(d, n))
ConcatText(d, tx, ns) ==
    IF ns = <<>> THEN <<>> ELSE TextContent(d, tx, Head(ns)) \o ConcatText(d, tx, Tail(ns))

\* element.closest('[data-fb-blocked="true"]')
RECURSIVE ClosestBlocked(_, _)
ClosestBlocked(d, n) ==
    IF n = Root THEN FALSE
    ELSE IF d[n].fbBlocked = "true" THEN TRUE
    ELSE ClosestBlocked(d, Parent[n])

\* An element as findPostContainer reads it: its data-pagelet and role
\* attributes, and whether it is document.body.  An attribute that
\* getAttribute gives as null is held as the empty string: the loop tests
\* pagelet for truth before startsWith, and compares with === otherwise,
\* so it treats the two alike.
Element(pagelet, role, body) == [pagelet |-> pagelet, role |-> role, body |-> body]

\* String.prototype.startsWith
StartsWith(s, prefix) ==
    IF Len(s) < Len(prefix) THEN FALSE
    ELSE \A k \in 1..Len(prefix) : s[k] = prefix[k]

\* pagelet && pagelet.startsWith('FeedUnit'), or role === 'article'
IsPostContainer(e) == StartsWith(e.pagelet, Str("FeedUnit")) \/ e.role = "article"

\* The stop conditions: the page-level containers.
LandmarkRoles == {"feed", "main", "navigation", "banner", "contentinfo"}
IsLandmark(e) == e.pagelet = Str("Feed") \/ e.role \in LandmarkRoles

FIND_MAX_DEPTH == 50

\* The loop with the stop conditions tested before the two returns.
RECURSIVE FindFromStopFirst(_, _, _)
FindFromStopFirst(chain, current, maxDepth) ==
    IF current > Len(chain) THEN 1
    ELSE IF chain[current].body \/ maxDepth = 0 THEN 1
    ELSE IF IsLandmark(chain[current]) THEN 1
    ELSE IF IsPostContainer(chain[current]) THEN current
    ELSE FindFromStopFirst(chain, current + 1, maxDepth - 1)

\* findPostContainer's loop.  chain holds the element (position 1) and its
\* ancestors in order, the parentElement of the last one being null;
\* current is the position of the loop's `current', maxDepth the steps
\* left.  The value is the position of the element returned.
RECURSIVE FindFrom(_, _, _)
FindFrom(chain, current, maxDepth) ==
    IF current > Len(chain) THEN 1
    ELSE IF chain[current].body \/ maxDepth = 0 THEN 1
    ELSE IF IsPostContainer(chain[current]) THEN current
    ELSE IF IsLandmark(chain[current]) THEN 1
    ELSE FindFrom(chain, current + 1, maxDepth - 1)

\* The elements of the fixed document: its post containers carry
\* role="article", Root is document.body.
ElementOf(n) ==
    IF n = Root THEN Element(<<>>, "", TRUE)
    ELSE Element(<<>>, IF IsUnit[n] THEN "article" ELSE "", FALSE)

\* n and its ancestors up to document.body
RECURSIVE Ancestors(_)
Ancestors(n) == IF n = Root THEN <<Root>> ELSE <<n>> \o Ancestors(Parent[n])

PostContainerOf ==
    [n \in Nodes \cup {Root} |->
        LET up == Ancestors(n)
        IN  up[FindFrom([i \in 1..Len(up) |-> ElementOf(up[i])], 1, FIND_MAX_DEPTH)]]

findPostContainer(element) == PostContainerOf[element]

(***************************************************************************)
(* A scan.  The scan state s carries the document (dom), the text cache,   *)
(* the containers this scan has handled (processed), the Stats.increment   *)
(* calls it made (blocks, in order), whether it changed the child lists of *)
(* the document (mutated), whether a callback threw (threw), the fragments *)
(* the throw left unevaluated (skipped), and the fragments whose match led *)
(* to a hide, each with the text that matched (causes).                    *)
(***************************************************************************)
Marked(v) == v = "true" \/ v = "shown"

\* getCachedText: the text it returns, and the cache afterwards
\* (a cache entry is <<text>> while fresh and <<>> otherwise)
CachedText(s, tx, n) ==
    IF s.cache[n] # <<>> THEN s.cache[n][1] ELSE TextContent(s.dom, tx, n)
WithCache(s, tx, n) ==
    IF s.cache[n] # <<>> THEN s
    ELSE [s EXCEPT !.cache[n] = <<TextContent(s.dom, tx, n)>>]

\* hidePost without the line that records style.display.
hidePostForgetsDisplay(s, post, sp) ==
    LET s1 == [s EXCEPT !.blocks = Append(@, post), !.mutated = TRUE] IN
    IF ~sp THEN [s1 EXCEPT !.dom[post].attached = FALSE]
    ELSE [s1 EXCEPT !.dom[post].fbBlocked = "true",
                    !.dom[post].display = "none",
                    !.dom[post].ph = @ + 1]

\* A hidePost that, without placeholder, hides the container where it is.
hidePostInPlace(s, post, sp) ==
    LET s1 == [s EXCEPT !.blocks = Append(@, post), !.mutated = TRUE] IN
    IF ~sp THEN [s1 EXCEPT !.dom[post].display = "none"]
    ELSE [s1 EXCEPT !.dom[post].fbBlocked = "true",
                    !.dom[post].originalDisplay = s.dom[post].display,
                    !.dom[post].display = "none",
                    !.dom[post].ph = @ + 1]

\* hidePost
hidePost(s, post, sp) ==
    LET s1 == [s EXCEPT !.blocks = Append(@, post), !.mutated = TRUE] IN
    IF ~sp THEN [s1 EXCEPT !.dom[post].attached = FALSE]
    ELSE [s1 EXCEPT !.dom[post].fbBlocked = "true",
                    !.dom[post].originalDisplay = s.dom[post].display,
                    !.dom[post].display = "none",
                    !.dom[post].ph = @ + 1]

\* hideComment
hideComment(s, comment, sp) ==
    LET s1 == [s EXCEPT !.blocks = Append(@, comment), !.mutated = TRUE] IN
    IF ~sp THEN [s1 EXCEPT !.dom[comment].attached = FALSE]
    ELSE [s1 EXCEPT !.dom[comment].fbCommentBlocked = "true",
                    !.dom[comment].originalDisplay = s.dom[comment].display,
                    !.dom[comment].display = "none",
                    !.dom[comment].cph = @ + 1]

Throw(s) == [s EXCEPT !.threw = TRUE]

\* The tail of a callback that found a match on `node': resolve the
\* container, skip it when it is marked or already handled, else hide it.
BlockContainer(s, kind, node, txt, sp) ==
    LET postContainer == findPostContainer(node) IN
    IF ~HasDataset[postContainer] THEN Throw(s)
    ELSE IF Marked(s.dom[postContainer].fbBlocked) THEN s
    ELSE IF postContainer \in s.processed THEN s
    ELSE hidePost([s EXCEPT !.processed = @ \cup {postContainer},
                            !.causes = @ \cup {<<kind, node, txt>>}],
                  postContainer, sp)

\* filterContent, method 1: the callback of posts.forEach
EvalPost(s, post, m, sp, tx) ==
    IF ~HasDataset[post] THEN Throw(s)
    ELSE IF Marked(s.dom[post].fbBlocked) THEN s
    ELSE LET txt == CachedText(s, tx, post)
             s1  == WithCache(s, tx, post)
         IN  IF matcherMatches(m, txt) THEN BlockContainer(s1, "post", post, txt, sp) ELSE s1

MAX_NODE_TEXT == 100

\* the test of the loop over BUILT_IN_ADS_PATTERNS, for any pattern
BuiltInHit(txt) ==
    \E i \in 1..Len(BUILT_IN_ADS_PATTERNS) :
        \/ Includes(normalizeText(txt), normalizeText(BUILT_IN_ADS_PATTERNS[i]))
        \/ Includes(txt, BUILT_IN_ADS_PATTERNS[i])
BuiltInTable == [t \in KnownTexts |-> BuiltInHit(t)]
builtInHit(txt) == IF txt \in KnownTexts THEN BuiltInTable[txt] ELSE BuiltInHit(txt)

\* filterContent, method 2: the callback of allTextNodes.forEach
EvalTextNode(s, node, m, sp, tx) ==
    LET txt == Trim(TextContent(s.dom, tx, node)) IN
    IF txt = <<>> \/ Len(txt) > MAX_NODE_TEXT THEN s
    ELSE IF builtInHit(txt) THEN BlockContainer(s, "text", node, txt, sp)
    ELSE IF Count(m) > 0 /\ matcherMatches(m, txt) THEN BlockContainer(s, "text", node, txt, sp)
    ELSE s

\* filterComments: the callback of comments.forEach
EvalComment(s, comment, m, sp, tx) ==
    IF ~HasDataset[comment] THEN Throw(s)
    ELSE IF Marked(s.dom[comment].fbCommentBlocked) THEN s
    ELSE IF ClosestBlocked(s.dom, comment) THEN s
    ELSE LET txt == CachedText(s, tx, comment)
             s1  == WithCache(s, tx, comment)
         IN  IF matcherMatches(m, txt)
               THEN hideComment([s1 EXCEPT !.causes = @ \cup {<<"comment", comment, txt>>}],
                                comment, sp)
               ELSE s1

Eval(kind, s, n, m, sp, tx) ==
    CASE kind = "post"    -> EvalPost(s, n, m, sp, tx)
      [] kind = "text"    -> EvalTextNode(s, n, m, sp, tx)
      [] kind = "comment" -> EvalComment(s, n, m, sp, tx)

\* NodeList.forEach: an exception thrown by a callback ends the iteration.
RECURSIVE ForEach(_, _, _, _, _, _)
ForEach(kind, s, list, m, sp, tx) ==
    IF list = <<>> THEN s
    ELSE IF s.threw
      THEN ForEach(kind, [s EXCEPT !.skipped = @ \cup {<<kind, Head(list)>>}],
                   Tail(list), m, sp, tx)
      ELSE ForEach(kind, Eval(kind, s, Head(list), m, sp, tx), Tail(list), m, sp, tx)

\* selectors.forEach(selector => querySelectorAll(selector).forEach(...))
RECURSIVE ForEachSelector(_, _, _, _, _, _)
ForEachSelector(kind, s, sels, m, sp, tx) ==
    IF sels = <<>> THEN s
    ELSE ForEachSelector(kind,
             ForEach(kind, s, QuerySelectorAll(s.dom, Head(sels)), m, sp, tx),
             Tail(sels), m, sp, tx)

\* filterComments
filterComments(s, m, en, bc, sp, tx) ==
    IF ~en \/ ~bc \/ Count(m) = 0 THEN s
    ELSE ForEachSelector("comment", s, CommentSelectors, m, sp, tx)

ScanStart(d, cache) ==
    [dom |-> d, cache |-> cache, processed |-> {}, blocks |-> <<>>,
     mutated |-> FALSE, threw |-> FALSE, skipped |-> {}, causes |-> {},
     scanned |-> FALSE]

\* A filterContent that tests only the rule count before it scans.
filterContentWhileDisabled(s0, m, en, bc, sp, tx) ==
    IF Count(m) = 0 THEN s0
    ELSE LET s1 == ForEachSelector("post", [s0 EXCEPT !.scanned = TRUE],
                                   PostSelectors, m, sp, tx)
             s2 == ForEachSelector("text", s1, <<TextNodeSelector>>, m, sp, tx)
         IN  filterComments(s2, m, TRUE, bc, sp, tx)

\* filterContent, from scan state s0 (the try block; catch logs the error)
filterContent(s0, m, en, bc, sp, tx) ==
    IF ~en \/ Count(m) = 0 THEN s0
    ELSE LET s1 == ForEachSelector("post", [s0 EXCEPT !.scanned = TRUE],
                                   PostSelectors, m, sp, tx)
             s2 == ForEachSelector("text", s1, <<TextNodeSelector>>, m, sp, tx)
         IN  filterComments(s2, m, en, bc, sp, tx)

\* resetHiddenPosts
resetHiddenPosts(s) ==
    LET hadPh == \E n \in Nodes : InDocument(s.dom, n) /\ (s.dom[n].ph > 0 \/ s.dom[n].cph > 0)
        ResetNode(r) ==
            LET afterPost ==
                    IF r.fbBlocked # NULL
                      THEN [r EXCEPT !.display = IF r.originalDisplay = NULL THEN ""
                                                 ELSE r.originalDisplay,
                                     !.fbBlocked = NULL, !.originalDisplay = NULL]
                      ELSE r
            IN  IF afterPost.fbCommentBlocked # NULL
                  THEN [afterPost EXCEPT
                          !.display = IF afterPost.originalDisplay = NULL THEN ""
                                      ELSE afterPost.originalDisplay,
                          !.fbCommentBlocked = NULL, !.originalDisplay = NULL]
                  ELSE afterPost
    IN  [s EXCEPT !.mutated = @ \/ hadPh,
                  !.dom = [n \in Nodes |->
                             IF InDocument(s.dom, n)
                               THEN [ResetNode(s.dom[n]) EXCEPT !.ph = 0, !.cph = 0]
                               ELSE s.dom[n]]]

(***************************************************************************)
(* The content script: its state after the script is evaluated, and its    *)
(* handlers.  Each action is one task of the event loop: the handler runs  *)
(* to its end (or to its await), then the MutationObserver callback is     *)
(* delivered if the handler changed a child list under document.body.      *)
(***************************************************************************)
NodeInit(n) ==
    [attached |-> TRUE, fbBlocked |-> NULL, fbCommentBlocked |-> NULL,
     originalDisplay |-> NULL, display |-> PageDisplay[n], ph |-> 0, cph |-> 0]

NotArmed == [notified |-> FALSE, configured |-> FALSE]

\* What a task that ran handler code did: s is its final scan state, reset
\* whether resetHiddenPosts ran, timer whether the debounce timer started
\* it, stale whether a changed rule set was still being read meanwhile;
\* threwEarlier records that a scan of an earlier task threw.
Did(ev, s, reset, timer, stale) ==
    [ev |-> ev, reset |-> reset, scanned |-> s.scanned, blocks |-> s.blocks,
     threw |-> s.threw, skipped |-> s.skipped, causes |-> s.causes,
     stale |-> s.scanned /\ stale,
     afterNotify |-> timer /\ armed.notified,
     afterConfig |-> timer /\ armed.configured,
     threwEarlier |-> last.threw \/ last.threwEarlier]

Idle(ev) ==
    [ev |-> ev, reset |-> FALSE, scanned |-> FALSE, blocks |-> <<>>,
     threw |-> FALSE, skipped |-> {}, causes |-> {}, stale |-> FALSE,
     afterNotify |-> FALSE, afterConfig |-> FALSE,
     threwEarlier |-> last.threw \/ last.threwEarlier]

\* Before any task has run.
NoLast ==
    [ev |-> "none", reset |-> FALSE, scanned |-> FALSE, blocks |-> <<>>,
     threw |-> FALSE, skipped |-> {}, causes |-> {}, stale |-> FALSE,
     afterNotify |-> FALSE, afterConfig |-> FALSE, threwEarlier |-> FALSE]

\* { today: 0, total: 0, lastReset: null }, the default of increment's read
NoStats == [today |-> 0, total |-> 0, lastReset |-> 0]

NoStore == [keywords |-> <<>>, version |-> 1, hasSync |-> FALSE, sync |-> <<>>,
            enabled |-> "undefined", v1 |-> <<>>]

NoProbe ==
    [done |-> FALSE, text |-> <<>>, result |-> FALSE, starts |-> {}, cursors |-> {}, calls |-> 0,
     rules |-> [n |-> 0, p |-> 0, r |-> 0, big |-> 0], whitelist |-> <<>>, threw |-> FALSE,
     error |-> NULL, elapsed |-> 0, chain |-> [head |-> <<>>, gap |-> 0, tail |-> <<>>],
     container |-> 0, largest |-> 0, caseSensitive |-> FALSE, normalized |-> <<>>,
     migration |-> [before |-> NoStore, after |-> NoStore,
                    result |-> [migrated |-> FALSE, count |-> 0, error |-> FALSE]],
     update |-> [from |-> [rules |-> <<>>, whitelist |-> <<>>],
                 to |-> [rules |-> <<>>, big |-> 0],
                 compiled |-> <<NoRegExp, <<>>, NoRegExp>>],
     stats |-> [stored |-> NoStats, date |-> 1, calls |-> 0, scans |-> 0, pending |-> <<>>],
     loop |-> [ready |-> FALSE, rules |-> 1, sp |-> TRUE, txt |-> <<1, 1>>,
               fb |-> [e \in 1..3 |-> NULL], attached |-> [e \in 1..3 |-> TRUE],
               spans |-> <<>>, timer |-> FALSE, scans |-> 0]]

\* The module-level state of the script around a matcher constructed as m.
InitAround(m, budget) ==
    /\ matcher = m
    /\ probe = NoProbe
    /\ enabled = TRUE
    /\ blockComments = TRUE
    /\ showPlaceholder = TRUE
    /\ debounceTimer = NULL
    /\ timers = 0
    /\ phase = "loading"
    /\ storage = [keywords |-> 2, whitelist |-> 1, enabled |-> TRUE,
                  blockComments |-> TRUE, showPlaceholder |-> TRUE]
    /\ inflight = <<>>
    /\ text = [n \in Leaves |-> 1]
    /\ dom = [n \in Nodes |-> NodeInit(n)]
    /\ textCache = [n \in Nodes |-> <<>>]
    /\ armed = NotArmed
    /\ last = NoLast
    /\ left = budget

\* let matcher = new KeywordMatcher()
InitWith(budget) == InitAround(Compile(<<>>, <<>>), budget)

\* The run that spends its changes on the page's texts.
Init == InitWith([text |-> MaxTextChanges, config |-> MaxConfigChanges])
\* The run that spends them on the configuration.
InitConfig == InitWith([text |-> MaxTextChanges - 1, config |-> MaxConfigChanges + 1])

\* The observer callback of setupObserver, run when `delivered'.  timer, n
\* and a are debounceTimer, the pending timeouts and the timer's history
\* before the callback; cfg says the task handled a configuration change.
\* clearTimeout(debounceTimer): the pending timeouts left
clearTimeout(timer, n) == IF timer = "pending" THEN n - 1 ELSE n

\* An observer that a thrown exception has put out of action.
ObserveUntilThrow(delivered, timer, n, a, cfg, en, m) ==
    IF delivered /\ en /\ Count(m) > 0 /\ ~(last.threw \/ last.threwEarlier)
      THEN [timer |-> "pending", timers |-> clearTimeout(timer, n) + 1, armed |-> NotArmed]
    ELSE IF timer = "pending"
      THEN [timer |-> timer, timers |-> n,
            armed |-> [notified   |-> a.notified \/ delivered,
                       configured |-> a.configured \/ cfg]]
    ELSE [timer |-> timer, timers |-> n, armed |-> NotArmed]

Observe(delivered, timer, n, a, cfg, en, m) ==
    IF delivered /\ en /\ Count(m) > 0
      THEN [timer |-> "pending", timers |-> clearTimeout(timer, n) + 1, armed |-> NotArmed]
    ELSE IF timer = "pending"
      THEN [timer |-> timer, timers |-> n,
            armed |-> [notified   |-> a.notified \/ delivered,
                       configured |-> a.configured \/ cfg]]
    ELSE [timer |-> timer, timers |-> n, armed |-> NotArmed]

\* A handler still awaiting chrome.storage whose rules the matcher m lacks.
StalePending(queue, m) ==
    \E i \in 1..Len(queue) :
        \/ RuleSets[queue[i].keywords] # m.keywords
        \/ Whitelists[queue[i].whitelist] # m.whitelist

\* The end of a task that ran handler code on the document: s is the final
\* scan state, en and m the flag and matcher the observer callback reads.
Settle(s, timer, n, a, cfg, en, m) ==
    \E o \in {Observe(s.mutated, timer, n, a, cfg, en, m)} :
        /\ dom' = s.dom
        /\ textCache' = s.cache
        /\ debounceTimer' = o.timer
        /\ timers' = o.timers
        /\ armed' = o.armed

\* A task that leaves the document alone and delivers the observer
\* callback when `delivered'.
SettleIdle(delivered, cfg) ==
    \E o \in {Observe(delivered, debounceTimer, timers, armed, cfg, enabled, matcher)} :
        /\ debounceTimer' = o.timer
        /\ timers' = o.timers
        /\ armed' = o.armed

\* init(), from loadSettings' resolution on: setupObserver, filterContent,
\* then the two listeners are registered.
InitLoaded ==
    /\ phase = "loading"
    /\ \E m \in {Update(matcher, RuleSets[storage.keywords], Whitelists[storage.whitelist])} :
       \E s \in {filterContent(ScanStart(dom, textCache), m, storage.enabled,
                               storage.blockComments, storage.showPlaceholder, text)} :
           /\ matcher' = m
           /\ Settle(s, debounceTimer, timers, armed, FALSE, storage.enabled, m)
           /\ last' = Did("init", s, FALSE, FALSE, FALSE)
    /\ enabled' = storage.enabled
    /\ blockComments' = storage.blockComments
    /\ showPlaceholder' = storage.showPlaceholder
    /\ phase' = "ready"
    /\ UNCHANGED <<probe, storage, inflight, text, left>>

\* The page changes a child list somewhere under document.body.
Notify ==
    /\ phase = "ready"
    /\ SettleIdle(TRUE, FALSE)
    /\ last' = Idle("notify")
    /\ UNCHANGED <<probe, matcher, enabled, blockComments, showPlaceholder, phase, storage,
                   inflight, text, dom, textCache, left>>

\* The page replaces the text of leaf n (a child-list mutation).
PageSetText(n, t) ==
    /\ left.text > 0
    /\ t \in TextsOf[n] /\ t # text[n]
    /\ InDocument(dom, n)
    /\ text' = [text EXCEPT ![n] = t]
    /\ left' = [left EXCEPT !.text = @ - 1]
    /\ SettleIdle(phase = "ready", FALSE)
    /\ last' = Idle("text")
    /\ UNCHANGED <<probe, matcher, enabled, blockComments, showPlaceholder, phase, storage,
                   inflight, dom, textCache>>

\* CACHE_TTL passes: no entry of textCache is fresh any more.
CacheExpire ==
    /\ \E n \in Nodes : textCache[n] # <<>>
    /\ textCache' = [n \in Nodes |-> <<>>]
    /\ last' = Idle("expire")
    /\ UNCHANGED <<probe, matcher, enabled, blockComments, showPlaceholder, debounceTimer,
                   timers, phase, storage, inflight, text, dom, armed, left>>

\* The debounce timer fires: filterContent().
TimerFire ==
    /\ timers > 0
    /\ \E s \in {filterContent(ScanStart(dom, textCache), matcher, enabled,
                               blockComments, showPlaceholder, text)} :
           /\ Settle(s, IF timers = 1 THEN NULL ELSE debounceTimer, timers - 1,
                     NotArmed, FALSE, enabled, matcher)
           /\ last' = Did("timer", s, FALSE, TRUE, StalePending(inflight, matcher))
    /\ UNCHANGED <<probe, matcher, enabled, blockComments, showPlaceholder, phase, storage,
                   inflight, text, left>>

\* The popup or options page stores a new rule set or whitelist: the
\* storage.onChanged listener (area 'local') starts and awaits
\* chrome.storage.local.get.
SetRules(k, w) ==
    /\ phase = "ready"
    /\ left.config > 0
    /\ Len(inflight) < MaxInflight
    /\ <<k, w>> # <<storage.keywords, storage.whitelist>>
    /\ storage' = [storage EXCEPT !.keywords = k, !.whitelist = w]
    /\ inflight' = Append(inflight,
                     [kind |-> "changed", keywords |-> k, whitelist |-> w,
                      enabled |-> TRUE, blockComments |-> TRUE, showPlaceholder |-> TRUE])
    /\ left' = [left EXCEPT !.config = @ - 1]
    /\ SettleIdle(FALSE, TRUE)
    /\ last' = Idle("rules")
    /\ UNCHANGED <<probe, matcher, enabled, blockComments, showPlaceholder, phase, text, dom,
                   textCache>>

\* The popup sends { action: 'update' }: the onMessage listener calls
\* loadSettings, which awaits both chrome.storage reads.
UpdateMessage ==
    /\ phase = "ready"
    /\ left.config > 0
    /\ Len(inflight) < MaxInflight
    /\ inflight' = Append(inflight,
                     [kind |-> "update", keywords |-> storage.keywords,
                      whitelist |-> storage.whitelist, enabled |-> storage.enabled,
                      blockComments |-> storage.blockComments,
                      showPlaceholder |-> storage.showPlaceholder])
    /\ left' = [left EXCEPT !.config = @ - 1]
    /\ SettleIdle(FALSE, TRUE)
    /\ last' = Idle("message")
    /\ UNCHANGED <<probe, matcher, enabled, blockComments, showPlaceholder, phase, storage,
                   text, dom, textCache>>

\* The storage read of the oldest suspended handler resolves and the
\* handler runs to its end: matcher.update (for 'update', all of
\* loadSettings), resetHiddenPosts, filterContent.
ResumeHandler ==
    /\ inflight # <<>>
    /\ \E h \in {Head(inflight)} :
       \E m \in {Update(matcher, RuleSets[h.keywords], Whitelists[h.whitelist])} :
       \E en \in {IF h.kind = "update" THEN h.enabled ELSE enabled} :
       \E bc \in {IF h.kind = "update" THEN h.blockComments ELSE blockComments} :
       \E sp \in {IF h.kind = "update" THEN h.showPlaceholder ELSE showPlaceholder} :
       \E s \in {filterContent(resetHiddenPosts(ScanStart(dom, textCache)),
                               m, en, bc, sp, text)} :
           /\ matcher' = m
           /\ enabled' = en
           /\ blockComments' = bc
           /\ showPlaceholder' = sp
           /\ Settle(s, debounceTimer, timers, armed, FALSE, en, m)
           /\ last' = Did(h.kind, s, TRUE, FALSE, StalePending(Tail(inflight), m))
    /\ inflight' = Tail(inflight)
    /\ UNCHANGED <<probe, phase, storage, text, left>>

\* storage.onChanged, area 'sync', changes.enabled.
SetEnabled(b) ==
    /\ phase = "ready"
    /\ left.config > 0
    /\ b # storage.enabled
    /\ storage' = [storage EXCEPT !.enabled = b]
    /\ enabled' = b
    /\ left' = [left EXCEPT !.config = @ - 1]
    /\ \E s0 \in {ScanStart(dom, textCache)} :
       \E s \in {IF ~b THEN resetHiddenPosts(s0)
                 ELSE filterContent(s0, matcher, b, blockComments, showPlaceholder, text)} :
           /\ Settle(s, debounceTimer, timers, armed, TRUE, b, matcher)
           /\ last' = Did(IF b THEN "enable" ELSE "disable", s, ~b, FALSE,
                          StalePending(inflight, matcher))
    /\ UNCHANGED <<probe, matcher, blockComments, showPlaceholder, phase, inflight, text>>

\* storage.onChanged, area 'sync', changes.settings.
SetSettings(bc, sp) ==
    /\ phase = "ready"
    /\ left.config > 0
    /\ <<bc, sp>> # <<storage.blockComments, storage.showPlaceholder>>
    /\ storage' = [storage EXCEPT !.blockComments = bc, !.showPlaceholder = sp]
    /\ blockComments' = bc
    /\ showPlaceholder' = sp
    /\ left' = [left EXCEPT !.config = @ - 1]
    /\ \E s \in {filterContent(resetHiddenPosts(ScanStart(dom, textCache)),
                               matcher, enabled, bc, sp, text)} :
           /\ Settle(s, debounceTimer, timers, armed, TRUE, enabled, matcher)
           /\ last' = Did("settings", s, TRUE, FALSE, StalePending(inflight, matcher))
    /\ UNCHANGED <<probe, matcher, enabled, phase, inflight, text>>

\* Whether node n is rendered (an affordance is inserted beside its node,
\* so it is rendered when the node's parent is).
RECURSIVE Rendered(_, _)
Rendered(d, n) ==
    IF n = Root THEN TRUE
    ELSE d[n].attached /\ d[n].display # "none" /\ Rendered(d, Parent[n])

OrEmpty(v) == IF v = NULL THEN "" ELSE v

\* The body of the two click listeners, on the record of their element.
ShowPost(r) ==
    [r EXCEPT !.display = OrEmpty(r.originalDisplay), !.fbBlocked = "shown", !.ph = @ - 1]
ShowComment(r) ==
    [r EXCEPT !.display = OrEmpty(r.originalDisplay), !.fbCommentBlocked = "shown",
              !.cph = @ - 1]

\* The click listener of a post affordance's Show button.
ClickShow(n) ==
    /\ dom[n].ph > 0
    /\ dom[n].attached /\ Rendered(dom, Parent[n])
    /\ dom' = [dom EXCEPT ![n] = ShowPost(dom[n])]
    /\ SettleIdle(TRUE, FALSE)
    /\ last' = Idle("show")
    /\ UNCHANGED <<probe, matcher, enabled, blockComments, showPlaceholder, phase, storage,
                   inflight, text, textCache, left>>

\* The click listener of a comment affordance's Show button.
ClickShowComment(n) ==
    /\ dom[n].cph > 0
    /\ dom[n].attached /\ Rendered(dom, Parent[n])
    /\ dom' = [dom EXCEPT ![n] = ShowComment(dom[n])]
    /\ SettleIdle(TRUE, FALSE)
    /\ last' = Idle("showComment")
    /\ UNCHANGED <<probe, matcher, enabled, blockComments, showPlaceholder, phase, storage,
                   inflight, text, textCache, left>>

Next ==
    \/ InitLoaded
    \/ Notify
    \/ \E n \in Leaves : \E t \in 1..Len(TextPool) : PageSetText(n, t)
    \/ CacheExpire
    \/ TimerFire
    \/ \E k \in 1..Len(RuleSets) : \E w \in 1..Len(Whitelists) : SetRules(k, w)
    \/ UpdateMessage
    \/ ResumeHandler
    \/ \E b \in BOOLEAN : SetEnabled(b)
    \/ \E bc \in BOOLEAN : \E sp \in BOOLEAN : SetSettings(bc, sp)
    \/ \E n \in Nodes : ClickShow(n)
    \/ \E n \in Nodes : ClickShowComment(n)

Spec == Init /\ [][Next]_vars
SpecConfig == InitConfig /\ [][Next]_vars

\* Weak fairness of TimerFire: setTimeout runs its callback DEBOUNCE_MS after
\* the last notification set it, so a timeout does not stay pending for
\* ever.  This is WF_vars(TimerFire) with its two parts written out:
\* TimerFire is enabled exactly while a timeout is pending (its guard), and
\* its steps are the steps that leave last.ev = "timer" (TimerStepsAreTimer).
TimerFairness == []<>(timers = 0) \/ []<><<last'.ev = "timer">>_vars

\* The steps that leave last.ev = "timer" are the steps of TimerFire.
TimerStepsAreTimer == [][last'.ev = "timer" <=> TimerFire]_vars

\* The runs of Spec in which a pending debounce timer does fire.
SpecLive == Init /\ [][Next]_vars /\ TimerFairness

(***************************************************************************)
(* The matcher on its own: a KeywordMatcher constructed over any rule set  *)
(* and whitelist of the pools below, updated one entry at a time as the    *)
(* options page does, and asked about any text over ProbeChars.            *)
(***************************************************************************)
ProbeChars == <<"a", "K", " ", "(", "U+212A">>
MatcherRulePool ==
    << Rule(Str("a"), FALSE), Rule(Str("k"), FALSE), Rule(Str("("), FALSE),
       Rule(Str("."), FALSE), Rule(Str("."), TRUE), Rule(Str("("), TRUE) >>
MatcherWhitelistPool == << Rule(Str("A"), FALSE), Rule(Str("a ("), FALSE) >>

SeqsUpTo(pool, n) == UNION {[1..k -> Range(pool)] : k \in 0..n}
ProbeTexts == SeqsUpTo(ProbeChars, MaxProbeLen)

InitMatcher ==
    \E k \in SeqsUpTo(MatcherRulePool, MaxMatcherRules) :
    \E w \in SeqsUpTo(MatcherWhitelistPool, MaxMatcherWhitelist) :
        InitAround(Compile(k, w), [text |-> 0, config |-> 0])

\* matcher.matches(t)
MatcherMatches(t) ==
    /\ ~probe.done
    /\ probe' = [NoProbe EXCEPT !.done = TRUE, !.text = t, !.result = Matches(matcher, t),
                                !.calls = 1]
    /\ UNCHANGED <<matcher, enabled, blockComments, showPlaceholder, debounceTimer, timers,
                   phase, storage, inflight, text, dom, textCache, armed, last, left>>

\* matcher.update(keywords, whitelist)
MatcherUpdate(k, w) ==
    /\ matcher' = Update(matcher, k, w)
    /\ probe' = NoProbe
    /\ UNCHANGED <<enabled, blockComments, showPlaceholder, debounceTimer, timers,
                   phase, storage, inflight, text, dom, textCache, armed, last, left>>

\* The options page adds a rule.
MatcherAddRule(r) ==
    /\ Len(matcher.keywords) < MaxMatcherRules
    /\ MatcherUpdate(Append(matcher.keywords, r), matcher.whitelist)

\* The options page adds a whitelist entry.
MatcherAddWhitelist(e) ==
    /\ Len(matcher.whitelist) < MaxMatcherWhitelist
    /\ MatcherUpdate(matcher.keywords, Append(matcher.whitelist, e))

NextMatcher ==
    \/ \E t \in ProbeTexts : MatcherMatches(t)
    \/ \E r \in Range(MatcherRulePool) : MatcherAddRule(r)
    \/ \E e \in Range(MatcherWhitelistPool) : MatcherAddWhitelist(e)

SpecMatcher == InitMatcher /\ [][NextMatcher]_vars

(***************************************************************************)
(* Successive calls of matches on one matcher: the RegExps keep their      *)
(* lastIndex from call to call.  probe holds the latest call and counts    *)
(* the calls made.                                                         *)
(***************************************************************************)
MaxCursorCalls == 2
CursorTexts ==
    { Str("a"), Str("K"), Str("("), Str(" a"), Str("a a"), Str("aa"), Str("a ("),
      Str("K a"), Str(" ( "), Str("  K"), <<"a", "U+212A">>, <<>> }

InitCursor == InitMatcher

\* The values of lastIndex the matcher's RegExps hold.
Cursors(m) ==
    {m.whitelistRegex.lastIndex, m.compiledRegex.lastIndex}
    \cup {m.regexPatterns[i].lastIndex : i \in 1..Len(m.regexPatterns)}

\* matcher.matches(t), after the calls made before
CursorMatches(t) ==
    /\ probe.calls < MaxCursorCalls
    /\ \E call \in {MatchesCall(matcher, t)} :
         /\ matcher' = call.m
         /\ probe' = [NoProbe EXCEPT !.done = TRUE, !.text = t, !.result = call.result,
                                     !.starts = call.starts, !.cursors = Cursors(matcher),
                                     !.calls = probe.calls + 1]
    /\ UNCHANGED <<enabled, blockComments, showPlaceholder, debounceTimer, timers,
                   phase, storage, inflight, text, dom, textCache, armed, last, left>>

\* matcher.update(keywords, whitelist) between two calls
CursorUpdate(r) ==
    /\ Len(matcher.keywords) < MaxMatcherRules
    /\ matcher' = Update(matcher, Append(matcher.keywords, r), matcher.whitelist)
    /\ probe' = [NoProbe EXCEPT !.calls = probe.calls]
    /\ UNCHANGED <<enabled, blockComments, showPlaceholder, debounceTimer, timers,
                   phase, storage, inflight, text, dom, textCache, armed, last, left>>

NextCursor ==
    \/ \E t \in CursorTexts : CursorMatches(t)
    \/ \E r \in Range(MatcherRulePool) : CursorUpdate(r)

SpecCursor == InitCursor /\ [][NextCursor]_vars

(***************************************************************************)
(* Rule sets at the two limits of compile: MAX_KEYWORDS rules and a merged *)
(* literal pattern of MAX_PATTERN_SIZE characters.  A rule set is named by *)
(* its shape [n, p, r, big]: n filler rules, the rule at position p        *)
(* replaced by rule r of OverflowRules, and a literal rule of big          *)
(* characters behind them when big > 0.  probe holds the shape, the        *)
(* whitelist and the text of new KeywordMatcher(rules, whitelist)          *)
(* .matches(text), whether the constructor threw, and the result.          *)
(***************************************************************************)
MaxExcess == 2
FillerRule == Rule(Str("x"), FALSE)
OverflowRules == <<Rule(Str("a"), FALSE), Rule(Str("."), TRUE), Rule(Str("("), TRUE)>>

\* A literal rule of n characters.
Big(n) == Rule(SubSeq([i \in 1..n |-> "x"], 1, n), FALSE)

\* The longest literal rule whose pattern, it being the only rule, fits.
BigLen == MAX_PATTERN_SIZE - WrapperLen

\* The rule set of a shape.
RuleSetOf(d) ==
    [[i \in 1..d.n |-> FillerRule] EXCEPT ![d.p] = OverflowRules[d.r]]
    \o (IF d.big > 0 THEN <<Big(d.big)>> ELSE <<>>)

\* Around the count limit, the rule r first, last within the limit and
\* first behind it.
CountShapes ==
    {[n |-> n, p |-> p, r |-> r, big |-> 0] :
        n \in (MAX_KEYWORDS - 1)..(MAX_KEYWORDS + MaxExcess),
        p \in {1, MAX_KEYWORDS, MAX_KEYWORDS + 1},
        r \in 1..Len(OverflowRules)}

\* Around the size limit: with the literal rule "a" alone before it, the big
\* rule of BigLen - 2 characters makes a merged pattern of exactly
\* MAX_PATTERN_SIZE characters.
SizeShapes ==
    {[n |-> n, p |-> 1, r |-> r, big |-> b] :
        n \in 1..2, r \in 1..2, b \in {BigLen - 2, BigLen - 1}}

OverflowTexts == {Str("a"), Str("x a"), Str("K"), Str("ax")}

InitOverflow == InitAround(Compile(<<>>, <<>>), [text |-> 0, config |-> 0])

\* new KeywordMatcher(RuleSetOf(d), w).matches(t)
OverflowMatches(d, w, t) ==
    /\ ~probe.done
    /\ \E m \in {Compile(RuleSetOf(d), w)} :
         probe' = [NoProbe EXCEPT !.done = TRUE, !.text = t, !.result = Matches(m, t),
                                  !.rules = d, !.whitelist = w, !.threw = m.threw,
                                  !.calls = 1]
    /\ UNCHANGED <<matcher, enabled, blockComments, showPlaceholder, debounceTimer, timers,
                   phase, storage, inflight, text, dom, textCache, armed, last, left>>

NextOverflow ==
    \E d \in CountShapes \cup SizeShapes : \E w \in {<<>>, <<MatcherWhitelistPool[1]>>} :
    \E t \in OverflowTexts : OverflowMatches(d, w, t)

SpecOverflow == InitOverflow /\ [][NextOverflow]_vars

(***************************************************************************)
(* update on a matcher that was constructed over an earlier rule set and   *)
(* whitelist.  The new rule set is named [rules, big]: the rules, and      *)
(* behind them a literal rule of big characters when big > 0, with which   *)
(* the merged literal pattern is too large to compile.  probe holds the    *)
(* earlier rule set and whitelist, the new ones, the text asked about, the *)
(* result of matches and the three compiled fields after the update.       *)
(***************************************************************************)
MaxUpdateRules == 1
UpdateRulePool == <<Rule(Str("a"), FALSE), Rule(Str("."), TRUE), Rule(Str("("), TRUE)>>
UpdateWhitelists == {<<>>, <<MatcherWhitelistPool[1]>>}
UpdateTexts == {Str("a"), Str("K"), Str("x a"), <<>>}

SmallRuleSets == SeqsUpTo(UpdateRulePool, MaxUpdateRules)

\* The rule set of a name.
RuleSetNamed(d) == d.rules \o (IF d.big > 0 THEN <<Big(d.big)>> ELSE <<>>)

\* Rule sets whose merged literal pattern is one character too long: the
\* literal "a" or the pattern "." before the big literal rule.
AbandonedNames ==
    {[rules |-> <<UpdateRulePool[1]>>, big |-> BigLen - 1],
     [rules |-> <<UpdateRulePool[2]>>, big |-> BigLen + 1]}

UpdateNames == {[rules |-> k, big |-> 0] : k \in SmallRuleSets} \cup AbandonedNames

\* The compiled fields of a matcher.
CompiledOf(m) == <<m.compiledRegex, m.regexPatterns, m.whitelistRegex>>

InitUpdate == InitAround(Compile(<<>>, <<>>), [text |-> 0, config |-> 0])

\* m = new KeywordMatcher(k0, w0); m.update(RuleSetNamed(d), w); m.matches(t)
UpdateMatches(k0, w0, d, w, t) ==
    /\ \E m \in {Update(Compile(k0, w0), RuleSetNamed(d), w)} :
         probe' = [NoProbe EXCEPT !.done = TRUE, !.text = t, !.result = Matches(m, t),
                                  !.whitelist = w, !.threw = m.threw, !.calls = 1,
                                  !.update = [from |-> [rules |-> k0, whitelist |-> w0],
                                              to |-> d, compiled |-> CompiledOf(m)]]
    /\ UNCHANGED <<matcher, enabled, blockComments, showPlaceholder, debounceTimer, timers,
                   phase, storage, inflight, text, dom, textCache, armed, last, left>>

NextUpdate ==
    \E k0 \in IF probe.done THEN {} ELSE SmallRuleSets : \E w0 \in UpdateWhitelists :
    \E d \in UpdateNames : \E w \in UpdateWhitelists :
    \E t \in UpdateTexts : UpdateMatches(k0, w0, d, w, t)

SpecUpdate == InitUpdate /\ [][NextUpdate]_vars

(***************************************************************************)
(* RegexValidator (src/utils/regex-validator.js).  A pattern is a sequence *)
(* of the characters of PatternChars; NonString stands for an argument     *)
(* that is no string (null, undefined, a number).  probe holds the latest  *)
(* call of validate: the pattern, the time the probe took, valid, error.   *)
(***************************************************************************)
MaxPatternLen == 5
PatternChars == <<"(", ")", "a", "+", "*", "|", " ">>
NonString == <<NULL>>
Quantifiers == {"+", "*"}
WhiteSpace == {" "}

\* new RegExp(pattern, 'u') does not throw, for a pattern over PatternChars:
\* every group is closed, and a quantifier follows a character or a group.
RECURSIVE SyntaxScan(_, _, _, _)
SyntaxScan(p, i, depth, quantifiable) ==
    IF i > Len(p) THEN depth = 0
    ELSE IF p[i] = "(" THEN SyntaxScan(p, i + 1, depth + 1, FALSE)
    ELSE IF p[i] = ")" THEN depth > 0 /\ SyntaxScan(p, i + 1, depth - 1, TRUE)
    ELSE IF p[i] = "|" THEN SyntaxScan(p, i + 1, depth, FALSE)
    ELSE IF p[i] \in Quantifiers THEN quantifiable /\ SyntaxScan(p, i + 1, depth, FALSE)
    ELSE SyntaxScan(p, i + 1, depth, TRUE)

\* One step of a RegExp without groups: a character in (not in) a set,
\* once or any number of times.
One(set) == [set |-> set, neg |-> FALSE, star |-> FALSE]
Star(set, negated) == [set |-> set, neg |-> negated, star |-> TRUE]

\* Only the nested-quantifier shape is screened.
REDOS_NESTED_ONLY ==
    << <<One({"("}), Star(WhiteSpace, FALSE), Star({")"}, TRUE), One(Quantifiers),
         Star(WhiteSpace, FALSE), One({")"}), Star(WhiteSpace, FALSE), One(Quantifiers)>> >>

\* /\(\s*[^)]*[+*]\s*\)\s*[+*]/ and /\(\s*[^)|]*\|\s*[^)]*\)\s*[+*]/
REDOS_PATTERNS ==
    << <<One({"("}), Star(WhiteSpace, FALSE), Star({")"}, TRUE), One(Quantifiers),
         Star(WhiteSpace, FALSE), One({")"}), Star(WhiteSpace, FALSE), One(Quantifiers)>>,
       <<One({"("}), Star(WhiteSpace, FALSE), Star({")", "|"}, TRUE), One({"|"}),
         Star(WhiteSpace, FALSE), Star({")"}, TRUE), One({")"}), Star(WhiteSpace, FALSE),
         One(Quantifiers)>> >>

\* The steps from k on match p from position pos on (with backtracking).
RECURSIVE MatchSteps(_, _, _, _)
MatchSteps(steps, k, p, pos) ==
    IF k > Len(steps) THEN TRUE
    ELSE LET st == steps[k]
             ok == pos <= Len(p) /\ ((p[pos] \in st.set) # st.neg)
         IN  IF st.star
               THEN MatchSteps(steps, k + 1, p, pos) \/ (ok /\ MatchSteps(steps, k, p, pos + 1))
               ELSE ok /\ MatchSteps(steps, k + 1, p, pos + 1)

\* evil.test(pattern)
EvilTest(steps, p) == \E pos \in 1..Len(p) : MatchSteps(steps, 1, p, pos)

\* RegexValidator.validate(pattern, maxDuration), the probe taking elapsed
\* milliseconds.
Validate(pattern, maxDuration, elapsed) ==
    IF pattern = <<>> \/ pattern = NonString
      THEN [valid |-> FALSE, error |-> "Pattern required"]
    ELSE IF ~SyntaxScan(pattern, 1, 0, FALSE)
      THEN [valid |-> FALSE, error |-> "Invalid regex"]
    ELSE IF \E k \in 1..Len(REDOS_PATTERNS) : EvilTest(REDOS_PATTERNS[k], pattern)
      THEN [valid |-> FALSE, error |-> "Pattern may cause performance issues"]
    ELSE IF elapsed > maxDuration
      THEN [valid |-> FALSE, error |-> "Pattern too slow"]
    ELSE [valid |-> TRUE, error |-> NULL]

\* maxDuration = 100
DefaultMaxDuration == 100

InitValidator == InitAround(Compile(<<>>, <<>>), [text |-> 0, config |-> 0])

\* RegexValidator.validate(p)
ValidateCall(p, elapsed) ==
    /\ ~probe.done
    /\ \E v \in {Validate(p, DefaultMaxDuration, elapsed)} :
         probe' = [NoProbe EXCEPT !.done = TRUE, !.text = p, !.elapsed = elapsed,
                                  !.result = v.valid, !.error = v.error]
    /\ UNCHANGED <<matcher, enabled, blockComments, showPlaceholder, debounceTimer, timers,
                   phase, storage, inflight, text, dom, textCache, armed, last, left>>

NextValidator ==
    \E p \in IF probe.done THEN {} ELSE SeqsUpTo(PatternChars, MaxPatternLen) \cup {NonString} :
    \E elapsed \in {DefaultMaxDuration, DefaultMaxDuration + 1} : ValidateCall(p, elapsed)

SpecValidator == InitValidator /\ [][NextValidator]_vars

(***************************************************************************)
(* The rule store: chrome.storage.local keywords, written by the options   *)
(* page, the popup, import and the v1-to-v2 migration.  In this            *)
(* specification storage holds the stored rules themselves, each with the  *)
(* note whether RegexValidator.validate accepted it when it was created,   *)
(* and the v1 data of chrome.storage.sync.                                 *)
(***************************************************************************)
MaxStoredRules == 3
RuleTexts == {Str("a"), Str("a+"), Str("(a+)+"), Str("(a")}

\* options.html loads src/utils/regex-validator.js before options.js.
RegexValidatorDefined == TRUE

StoredRule(t, re, ok) ==
    [text |-> t, isRegex |-> re, validated |-> ok, category |-> "default",
     caseSensitive |-> FALSE]

\* The entries of chrome.storage.sync keywords: the strings of v1, and rule
\* objects written earlier (a partial migration), pattern rules among them
\* only as the options page has admitted them.
V1Entries ==
    {[isObject |-> FALSE, rule |-> StoredRule(t, FALSE, FALSE)] : t \in RuleTexts}
    \cup {[isObject |-> TRUE, rule |-> StoredRule(t, FALSE, FALSE)] : t \in RuleTexts}
    \cup {[isObject |-> TRUE, rule |-> StoredRule(t, TRUE, TRUE)] :
             t \in {u \in RuleTexts : Validate(u, DefaultMaxDuration, 0).valid}}

\* The longer lists of chrome.storage.sync keywords hold two strings and a
\* rule object without a category.
MaxV1Entries == 2
V1Few ==
    {[isObject |-> FALSE, rule |-> StoredRule(Str("a"), FALSE, FALSE)],
     [isObject |-> FALSE, rule |-> StoredRule(Str("(a+)+"), FALSE, FALSE)],
     [isObject |-> TRUE, rule |-> [StoredRule(Str("a+"), TRUE, TRUE) EXCEPT !.category = ""]]}
V1Lists ==
    {<<e>> : e \in V1Entries} \cup UNION {[1..n -> V1Few] : n \in 0..MaxV1Entries}

\* keywords.some(kw => kw.text.toLowerCase() === text.toLowerCase())
HasText(keywords, t) ==
    \E i \in 1..Len(keywords) :
        [k \in 1..Len(keywords[i].text) |-> toLowerCase(keywords[i].text[k])]
            = [k \in 1..Len(t) |-> toLowerCase(t[k])]

\* An import that keeps the isRegex flag of the file.
ImportedRuleAsExported(kw) == StoredRule(kw.text, kw.isRegex, FALSE)

\* The rule import and bulk add push for an entry: isRegex is forced false.
ImportedRule(kw) == StoredRule(kw.text, FALSE, FALSE)

\* The loop of addKeywordsBulk and handleImport over the entries.
RECURSIVE PushEntries(_, _)
PushEntries(keywords, entries) ==
    IF entries = <<>> THEN keywords
    ELSE PushEntries(IF HasText(keywords, Head(entries).text) THEN keywords
                     ELSE Append(keywords, ImportedRule(Head(entries))),
                     Tail(entries))

\* A migration that makes a pattern rule of every entry.
MigratedEntryAsPattern(e) == StoredRule(e.rule.text, TRUE, FALSE)

\* The record migrateV1ToV2 makes of one entry of the v1 list.
MigratedEntry(e) ==
    IF e.isObject
    THEN [e.rule EXCEPT !.category = IF @ = "" THEN "default" ELSE @]
    ELSE StoredRule(e.rule.text, FALSE, FALSE)

\* A migration that removes the v1 list before it writes local keywords.
AfterRemoveFirst(st) == [st EXCEPT !.hasSync = FALSE, !.sync = <<>>]

\* The writes of the migration up to the sync.set call: local keywords.
AfterLocalSet(st) ==
    [st EXCEPT !.keywords = [i \in 1..Len(st.sync) |-> MigratedEntry(st.sync[i])]]
\* ... up to the sync.remove call: version and enabled as well.
AfterSyncSet(st) ==
    [AfterLocalSet(st) EXCEPT !.version = 2,
                              !.enabled = IF @ = "false" THEN "false" ELSE "true"]

\* migrateV1ToV2 without the test of the version.
MigrateV1ToV2EveryTime(st) ==
    IF ~st.hasSync THEN [st EXCEPT !.version = 2]
    ELSE [AfterSyncSet(st) EXCEPT !.hasSync = FALSE, !.sync = <<>>]

\* Migration.migrateV1ToV2 on the stores: local keywords (keywords), and
\* of chrome.storage.sync the version, whether the keywords key is there
\* (hasSync) with its list (sync), and enabled ("undefined" if not there);
\* v1 keeps the list chrome.storage.sync held when version 2 was installed.
MigrateV1ToV2(st) ==
    IF st.version = 2 THEN st
    ELSE IF ~st.hasSync THEN [st EXCEPT !.version = 2]
    ELSE [AfterSyncSet(st) EXCEPT !.hasSync = FALSE, !.sync = <<>>]

\* What migrateV1ToV2 returns when no storage call fails.
MigrationResult(st) ==
    IF st.version = 2 \/ ~st.hasSync THEN [migrated |-> FALSE, count |-> 0, error |-> FALSE]
    ELSE [migrated |-> TRUE, count |-> Len(st.sync), error |-> FALSE]

InitRules ==
    /\ matcher = Compile(<<>>, <<>>)
    /\ probe = NoProbe
    /\ enabled = TRUE /\ blockComments = TRUE /\ showPlaceholder = TRUE
    /\ debounceTimer = NULL /\ timers = 0 /\ phase = "loading"
    /\ inflight = <<>>
    /\ text = [n \in Leaves |-> 1]
    /\ dom = [n \in Nodes |-> NodeInit(n)]
    /\ textCache = [n \in Nodes |-> <<>>]
    /\ armed = NotArmed /\ last = NoLast /\ left = [text |-> 0, config |-> 0]
    /\ \E has \in BOOLEAN : \E sync \in IF has THEN V1Lists ELSE {<<>>} :
       \E on \in {"undefined", "true", "false"} :
         storage = [NoStore EXCEPT !.hasSync = has, !.sync = sync, !.enabled = on,
                                   !.v1 = sync]

\* The handlers of the popup and the options page leave the record of the
\* last migration call behind.
RulesUnchanged ==
    /\ probe' = NoProbe
    /\ UNCHANGED <<matcher, enabled, blockComments, showPlaceholder, debounceTimer, timers,
                   phase, inflight, text, dom, textCache, armed, last, left>>

\* options page: addKeyword with the text and the regex check box, the
\* validator's probe taking elapsed milliseconds
AddKeyword(t, isRegex, elapsed) ==
    /\ Len(storage.keywords) < MaxStoredRules
    /\ isRegex => IF RegexValidatorDefined THEN Validate(t, DefaultMaxDuration, elapsed).valid
                  ELSE SyntaxScan(t, 1, 0, FALSE)
    /\ ~HasText(storage.keywords, t)
    /\ storage' = [storage EXCEPT !.keywords = Append(@, StoredRule(t, isRegex, isRegex))]
    /\ RulesUnchanged

\* popup: addKeyword
PopupAddKeyword(t) ==
    /\ Len(storage.keywords) < MaxStoredRules
    /\ ~HasText(storage.keywords, t)
    /\ storage' = [storage EXCEPT !.keywords = Append(@, StoredRule(t, FALSE, FALSE))]
    /\ RulesUnchanged

\* popup and options page: addKeywordsBulk and handleImport, the lines or
\* the file's keywords being the entries
ImportEntries(entries) ==
    /\ Len(storage.keywords) + Len(entries) <= MaxStoredRules
    /\ storage' = [storage EXCEPT !.keywords = PushEntries(@, entries)]
    /\ RulesUnchanged

\* content script: init calls Migration.migrateV1ToV2; the record of the
\* call holds the stores before and after it and what it returned.
Migrate ==
    /\ storage' = MigrateV1ToV2(storage)
    /\ probe' = [NoProbe EXCEPT !.done = TRUE,
                                !.migration = [before |-> storage,
                                               after |-> MigrateV1ToV2(storage),
                                               result |-> MigrationResult(storage)]]
    /\ UNCHANGED <<matcher, enabled, blockComments, showPlaceholder, debounceTimer, timers,
                   phase, inflight, text, dom, textCache, armed, last, left>>

\* The stores a call of the migrating branch leaves behind when it rejects:
\* what the calls before it have written.
StoreBefore(call, st) ==
    CASE call = "local.set" -> st
      [] call = "sync.set" -> AfterLocalSet(st)
      [] call = "sync.remove" -> AfterSyncSet(st)

\* migrateV1ToV2 in whose migrating branch chrome.storage.local.set,
\* chrome.storage.sync.set or chrome.storage.sync.remove rejects: the catch
\* block returns the error.
MigrateFails(call) ==
    /\ storage.version # 2
    /\ storage.hasSync
    /\ storage' = StoreBefore(call, storage)
    /\ probe' = [NoProbe EXCEPT !.done = TRUE,
                                !.migration = [before |-> storage,
                                               after |-> StoreBefore(call, storage),
                                               result |-> [migrated |-> FALSE, count |-> 0,
                                                           error |-> TRUE]]]
    /\ UNCHANGED <<matcher, enabled, blockComments, showPlaceholder, debounceTimer, timers,
                   phase, inflight, text, dom, textCache, armed, last, left>>

NextRules ==
    \/ \E t \in RuleTexts : \E re \in BOOLEAN :
       \E elapsed \in {DefaultMaxDuration, DefaultMaxDuration + 1} : AddKeyword(t, re, elapsed)
    \/ \E t \in RuleTexts : PopupAddKeyword(t)
    \/ \E t \in RuleTexts : \E re \in BOOLEAN : ImportEntries(<<StoredRule(t, re, FALSE)>>)
    \/ Migrate
    \/ \E call \in {"local.set", "sync.set", "sync.remove"} : MigrateFails(call)

SpecRules == InitRules /\ [][NextRules]_vars

(***************************************************************************)
(* The rule store near MAX_KEYWORDS entries.  The stored rules are filler  *)
(* rules with the texts k1, k2, ... and the rules the handlers of the      *)
(* popup and the options page add to them; probe holds the handler that    *)
(* ran last and the number of rules stored before it.                      *)
(***************************************************************************)
MaxLimitExcess == 2
MaxLimitEntries == 1
LimitTexts == <<Str("a"), Str("A"), Str("b")>>

RECURSIVE DigitsOf(_)
DigitsOf(i) == IF i < 10 THEN <<DigitChars[i + 1]>>
               ELSE Append(DigitsOf(i \div 10), DigitChars[(i % 10) + 1])
FillerText(i) == <<"k">> \o DigitsOf(i)

\* n stored rules with the texts k<from>, k<from + 1>, ...
Fillers(from, n) ==
    SubSeq([i \in 1..n |-> StoredRule(FillerText(from + i - 1), FALSE, FALSE)], 1, n)

\* The keywords of an import file or the lines of a bulk add: up to
\* MaxLimitEntries texts of LimitTexts, or new filler texts.
LimitEntryLists ==
    {[i \in 1..Len(l) |-> StoredRule(LimitTexts[l[i]], FALSE, FALSE)] :
        l \in UNION {[1..n -> 1..Len(LimitTexts)] : n \in 1..MaxLimitEntries}}
    \cup {Fillers(MAX_KEYWORDS + 1, n) : n \in 1..(MaxLimitEntries + 1)}

\* A file of one entry more than MAX_KEYWORDS.
LargeFile == Fillers(MAX_KEYWORDS + 1, MAX_KEYWORDS + 1)

\* popup.js handleImport, on the stored keywords and the file's keywords
PopupHandleImport(existing, entries) ==
    IF Len(entries) > MAX_KEYWORDS THEN existing
    ELSE IF Len(existing) + Len(entries) > MAX_KEYWORDS THEN existing
    ELSE PushEntries(existing, entries)

\* options page handleImport: the loop leaves at MAX_KEYWORDS stored rules
RECURSIVE OptionsHandleImport(_, _)
OptionsHandleImport(existing, entries) ==
    IF entries = <<>> \/ Len(existing) >= MAX_KEYWORDS THEN existing
    ELSE OptionsHandleImport(IF HasText(existing, Head(entries).text) THEN existing
                             ELSE Append(existing, ImportedRule(Head(entries))),
                             Tail(entries))

\* deleteKeyword(id, index) for the rule at position idx
DeleteKeyword(keywords, idx) ==
    SubSeq(keywords, 1, idx - 1) \o SubSeq(keywords, idx + 1, Len(keywords))

InitLimit ==
    /\ matcher = Compile(<<>>, <<>>)
    /\ probe = NoProbe
    /\ enabled = TRUE /\ blockComments = TRUE /\ showPlaceholder = TRUE
    /\ debounceTimer = NULL /\ timers = 0 /\ phase = "loading"
    /\ inflight = <<>>
    /\ text = [n \in Leaves |-> 1]
    /\ dom = [n \in Nodes |-> NodeInit(n)]
    /\ textCache = [n \in Nodes |-> <<>>]
    /\ armed = NotArmed /\ last = NoLast /\ left = [text |-> 0, config |-> 0]
    /\ \E n \in (MAX_KEYWORDS - MaxLimitExcess)..MAX_KEYWORDS :
         storage = [NoStore EXCEPT !.keywords = Fillers(1, n), !.version = 2]

\* A handler of the popup or the options page has stored keywords.
Stored(handler, keywords) ==
    /\ storage' = [storage EXCEPT !.keywords = keywords]
    /\ probe' = [NoProbe EXCEPT !.done = TRUE, !.error = handler,
                                !.calls = Len(storage.keywords)]
    /\ UNCHANGED <<matcher, enabled, blockComments, showPlaceholder, debounceTimer, timers,
                   phase, inflight, text, dom, textCache, armed, last, left>>

\* popup and options page: addKeyword
LimitAddKeyword(t) ==
    /\ Len(storage.keywords) < MAX_KEYWORDS + MaxLimitExcess
    /\ ~HasText(storage.keywords, t)
    /\ Stored("addKeyword", Append(storage.keywords, StoredRule(t, FALSE, FALSE)))

\* popup: addKeywordsBulk
LimitAddKeywordsBulk(lines) ==
    /\ Len(storage.keywords) + Len(lines) <= MAX_KEYWORDS + MaxLimitExcess
    /\ Stored("addKeywordsBulk", PushEntries(storage.keywords, lines))

\* popup: handleImport of a file whose keywords array holds entries
LimitPopupImport(entries) ==
    /\ Len(entries) > 0
    /\ Stored("handleImport", PopupHandleImport(storage.keywords, entries))

\* options page: handleImport of a file whose keywords array holds entries
LimitOptionsImport(entries) ==
    /\ Len(entries) > 0
    /\ Stored("options handleImport", OptionsHandleImport(storage.keywords, entries))

\* popup and options page: deleteKeyword (of the rule added last, here)
LimitDeleteKeyword(idx) ==
    /\ Len(storage.keywords) > MAX_KEYWORDS - MaxLimitExcess
    /\ idx \in 1..Len(storage.keywords)
    /\ Stored("deleteKeyword", DeleteKeyword(storage.keywords, idx))

NextLimit ==
    \/ \E i \in 1..Len(LimitTexts) : LimitAddKeyword(LimitTexts[i])
    \/ \E lines \in LimitEntryLists : LimitAddKeywordsBulk(lines)
    \/ \E entries \in LimitEntryLists \cup {LargeFile} : LimitPopupImport(entries)
    \/ \E entries \in LimitEntryLists \cup {LargeFile} : LimitOptionsImport(entries)
    \/ LimitDeleteKeyword(Len(storage.keywords))

SpecLimit == InitLimit /\ [][NextLimit]_vars

(***************************************************************************)
(* Stats.increment.  hidePost and hideComment call it without awaiting it, *)
(* so the calls of one scan are all under way before the first storage     *)
(* read resolves.  probe.stats holds the stats stored in                   *)
(* chrome.storage.local, the date, the number of calls made and the calls  *)
(* under way, each waiting for its get or for its set to resolve.  The     *)
(* order in which the storage calls of different increments resolve is     *)
(* not fixed by the code; any order is taken.                              *)
(***************************************************************************)
MaxIncrements == 3
MaxScanBlocks == 2
MaxDays == 2

\* lines 177-185 of increment, on the stats read and the date
IncrementedStats(stats, today) ==
    LET s1 == IF stats.lastReset # today
                THEN [stats EXCEPT !.today = 0, !.lastReset = today] ELSE stats
    IN  [s1 EXCEPT !.today = @ + 1, !.total = @ + 1]

RemoveAt(seq, i) == SubSeq(seq, 1, i - 1) \o SubSeq(seq, i + 1, Len(seq))

InitStats == InitAround(Compile(<<>>, <<>>), [text |-> 0, config |-> 0])

StatsUnchanged ==
    UNCHANGED <<matcher, enabled, blockComments, showPlaceholder, debounceTimer, timers,
                phase, storage, inflight, text, dom, textCache, armed, last, left>>

\* A scan hides n containers: n calls of Stats.increment, each up to its
\* await of chrome.storage.local.get.
StatsScan(n) ==
    /\ probe.stats.calls + n <= MaxIncrements
    /\ probe' = [probe EXCEPT !.stats.calls = @ + n,
                              !.stats.scans = @ + 1,
                              !.stats.pending = @ \o [i \in 1..n |->
                                  [awaits |-> "get", stats |-> NoStats]]]
    /\ StatsUnchanged

\* The get of the i-th call under way resolves: the call computes the new
\* stats from what it read and awaits chrome.storage.local.set.
StatsGetResolves(i) ==
    /\ i \in 1..Len(probe.stats.pending)
    /\ probe.stats.pending[i].awaits = "get"
    /\ probe' = [probe EXCEPT !.stats.pending[i] =
                    [awaits |-> "set",
                     stats |-> IncrementedStats(probe.stats.stored, probe.stats.date)]]
    /\ StatsUnchanged

\* The set of the i-th call under way resolves: its stats are stored and
\* increment returns.
StatsSetResolves(i) ==
    /\ i \in 1..Len(probe.stats.pending)
    /\ probe.stats.pending[i].awaits = "set"
    /\ probe' = [probe EXCEPT !.stats.stored = probe.stats.pending[i].stats,
                              !.stats.pending = RemoveAt(@, i)]
    /\ StatsUnchanged

\* Midnight passes.
StatsNextDay ==
    /\ probe.stats.date < MaxDays
    /\ probe' = [probe EXCEPT !.stats.date = @ + 1]
    /\ StatsUnchanged

NextStats ==
    \/ \E n \in 1..MaxScanBlocks : StatsScan(n)
    \/ \E i \in 1..MaxIncrements : StatsGetResolves(i)
    \/ \E i \in 1..MaxIncrements : StatsSetResolves(i)
    \/ StatsNextDay

SpecStats == InitStats /\ [][NextStats]_vars

(***************************************************************************)
(* The scan loop with the affordances as elements of the document.  A      *)
(* placeholder of hidePost is a div holding a span (textSpan) and a        *)
(* button, inserted before the hidden container; the span is an element    *)
(* the selector '[dir="auto"], span, a' of filterContent matches.  The     *)
(* page of this specification:                                             *)
(*   1 P  div role="article" under document.body                           *)
(*   2 T  span inside P, carrying P's text                                 *)
(*   3 U  span under document.body, outside every post                     *)
(* and element 3 + i is the textSpan of the i-th placeholder inserted.     *)
(* Nothing matches a comment selector and no text of the page changes, so  *)
(* filterComments finds nothing and getCachedText returns the text.        *)
(***************************************************************************)
MaxSpans == 8

LoopPage == 1..3
\* textSpan.textContent of hidePost (no message is defined for the locale)
PlaceholderText == Str("Content hidden by FB Content Blocker")
LoopTexts == <<Str("hello"), Str("buy spam"), Str("hidden gem")>>
LoopRuleSets == << <<Rule(Str("spam"), FALSE)>>, <<Rule(Str("hidden"), FALSE)>>,
                   <<Rule(Str("spam"), FALSE), Rule(Str("hidden"), FALSE)>> >>
LoopKnownTexts == Range(LoopTexts) \cup {PlaceholderText}

\* matcher.matches(text) and the built-in test on the texts of this page
LoopMatchTable ==
    [p \in (1..Len(LoopRuleSets)) \X LoopKnownTexts |->
        Matches(Compile(LoopRuleSets[p[1]], <<>>), p[2])]
LoopBuiltInTable == [t \in LoopKnownTexts |-> BuiltInHit(t)]

\* dataset.fbBlocked of element e, and whether e is in the document
LoopFb(l, e) == IF e \in LoopPage THEN l.fb[e] ELSE l.spans[e - 3].fb
LoopInDocument(l, e) ==
    CASE e = 1 -> l.attached[1]
      [] e = 2 -> l.attached[1]
      [] e = 3 -> l.attached[3]
      [] OTHER -> l.spans[e - 3].attached

\* node.textContent
LoopText(l, e) ==
    CASE e \in {1, 2} -> LoopTexts[l.txt[1]]
      [] e = 3 -> LoopTexts[l.txt[2]]
      [] OTHER -> PlaceholderText

\* The nearest post unit strictly above element e, 0 when there is none: a
\* placeholder is a sibling of the element it stands for.
RECURSIVE LoopUnitAbove(_, _)
LoopUnitAbove(l, e) ==
    CASE e = 2 -> 1
      [] e \in {1, 3} -> 0
      [] OTHER -> LoopUnitAbove(l, l.spans[e - 3].of)

\* findPostContainer: the unit found on the way up, else the element itself
LoopFindPostContainer(l, e) ==
    IF e = 1 THEN 1
    ELSE IF LoopUnitAbove(l, e) # 0 THEN LoopUnitAbove(l, e)
    ELSE e

\* hidePost on element c of scan state s
LoopHidePost(s, c) ==
    IF ~s.l.sp
      THEN [s EXCEPT !.mutated = TRUE,
                     !.l = IF c \in LoopPage THEN [@ EXCEPT !.attached[c] = FALSE]
                           ELSE [@ EXCEPT !.spans[c - 3].attached = FALSE]]
      ELSE [s EXCEPT !.mutated = TRUE,
                     !.l = [(IF c \in LoopPage THEN [@ EXCEPT !.fb[c] = "true"]
                             ELSE [@ EXCEPT !.spans[c - 3].fb = "true"])
                            EXCEPT !.spans = Append(@, [of |-> c, fb |-> NULL,
                                                        attached |-> TRUE])]]

\* The tail of a callback that found a match on element e.
LoopBlock(s, e) ==
    LET c == LoopFindPostContainer(s.l, e) IN
    IF Marked(LoopFb(s.l, c)) THEN s
    ELSE IF c \in s.processed THEN s
    ELSE LoopHidePost([s EXCEPT !.processed = @ \cup {c}], c)

\* The callbacks of posts.forEach and of allTextNodes.forEach
LoopEvalPost(s, e) ==
    IF Marked(LoopFb(s.l, e)) THEN s
    ELSE IF LoopMatchTable[<<s.l.rules, LoopText(s.l, e)>>] THEN LoopBlock(s, e)
    ELSE s
LoopEvalTextNode(s, e) ==
    LET txt == LoopText(s.l, e) IN
    IF txt = <<>> \/ Len(txt) > MAX_NODE_TEXT THEN s
    ELSE IF LoopBuiltInTable[txt] THEN LoopBlock(s, e)
    ELSE IF LoopMatchTable[<<s.l.rules, txt>>] THEN LoopBlock(s, e)
    ELSE s

RECURSIVE LoopForEach(_, _, _)
LoopForEach(kind, s, list) ==
    IF list = <<>> THEN s
    ELSE LoopForEach(kind,
                     IF kind = "post" THEN LoopEvalPost(s, Head(list))
                     ELSE LoopEvalTextNode(s, Head(list)),
                     Tail(list))

\* document.querySelectorAll: the elements of the document among `among'
LoopQuery(l, among) == SortedSeq({e \in among : LoopInDocument(l, e)})

\* filterContent (enabled, with a rule): the post selectors, then the text
\* nodes, each over the list querySelectorAll returned when its loop began.
LoopFilterContent(l) ==
    LET s0 == [l |-> l, processed |-> {}, mutated |-> FALSE]
        s1 == LoopForEach("post", s0, LoopQuery(l, {1}))
    IN  LoopForEach("text", s1, LoopQuery(s1.l, (2..(3 + Len(s1.l.spans)))))

\* The spans inside the placeholder of element e: its textSpan and the
\* placeholders inserted before spans inside it.
RECURSIVE LoopInside(_, _)
LoopInside(l, e) ==
    LET own == {3 + i : i \in {j \in 1..Len(l.spans) : l.spans[j].of = e}}
    IN  own \cup UNION {LoopInside(l, d) : d \in own}

InitLoop == InitAround(Compile(<<>>, <<>>), [text |-> 0, config |-> 0])

LoopUnchanged ==
    UNCHANGED <<matcher, enabled, blockComments, showPlaceholder, debounceTimer, timers,
                phase, storage, inflight, text, dom, textCache, armed, last, left>>

\* init(): settings are loaded (rule set r, showPlaceholder sp) on a page
\* whose P and U carry texts tp and tu; the observer is set up and
\* filterContent runs.  The observer is notified of what the scan changed.
LoopStart(r, sp, tp, tu) ==
    /\ ~probe.loop.ready
    /\ \E s \in {LoopFilterContent([probe.loop EXCEPT !.rules = r, !.sp = sp,
                                                       !.txt = <<tp, tu>>])} :
           probe' = [probe EXCEPT !.loop = [s.l EXCEPT !.ready = TRUE,
                                                       !.timer = s.mutated,
                                                       !.scans = 1]]
    /\ LoopUnchanged

\* The debounce timer fires: filterContent(); the observer is notified of
\* what the scan changed and sets the timer again.
LoopTimer ==
    /\ probe.loop.ready /\ probe.loop.timer
    /\ Len(probe.loop.spans) <= MaxSpans
    /\ \E s \in {LoopFilterContent(probe.loop)} :
           probe' = [probe EXCEPT !.loop = [s.l EXCEPT !.timer = s.mutated,
                                                       !.scans = @ + 1]]
    /\ LoopUnchanged

\* The page changes a child list: the observer sets the timer.
LoopNotify ==
    /\ probe.loop.ready
    /\ probe.loop.scans > 0
    /\ probe' = [probe EXCEPT !.loop.timer = TRUE, !.loop.scans = 0]
    /\ LoopUnchanged

\* The user clicks Show on the placeholder of element e: display is put
\* back, fbBlocked = 'shown', placeholder.remove().
LoopShow(e) ==
    /\ probe.loop.ready
    /\ e \in 1..(3 + Len(probe.loop.spans))
    /\ LoopInDocument(probe.loop, e) /\ LoopFb(probe.loop, e) = "true"
    /\ \E gone \in {LoopInside(probe.loop, e)} :
       \E l \in {IF e \in LoopPage THEN [probe.loop EXCEPT !.fb[e] = "shown"]
                 ELSE [probe.loop EXCEPT !.spans[e - 3].fb = "shown"]} :
           probe' = [probe EXCEPT !.loop =
                        [l EXCEPT !.spans = [i \in 1..Len(l.spans) |->
                                                IF 3 + i \in gone
                                                  THEN [l.spans[i] EXCEPT !.attached = FALSE]
                                                  ELSE l.spans[i]],
                                  !.timer = TRUE, !.scans = 0]]
    /\ LoopUnchanged

NextLoop ==
    \/ \E r \in 1..Len(LoopRuleSets), sp \in BOOLEAN, tp, tu \in 1..Len(LoopTexts) :
           LoopStart(r, sp, tp, tu)
    \/ LoopTimer
    \/ LoopNotify
    \/ \E e \in 1..(3 + MaxSpans + 3) : LoopShow(e)

SpecLoop == InitLoop /\ [][NextLoop]_vars

(***************************************************************************)
(* Container resolution on its own: findPostContainer on the chain of an   *)
(* element and its ancestors.  A chain is given by its shape: at most one  *)
(* element (head), then gap elements without data-pagelet or role, then    *)
(* up to MaxChainTail elements (tail); the parentElement of its last       *)
(* element is null, and only its last element can be document.body.        *)
(***************************************************************************)
MaxChainTail == 2
GapLengths ==
    {0, 1, FIND_MAX_DEPTH - 3, FIND_MAX_DEPTH - 2, FIND_MAX_DEPTH - 1, FIND_MAX_DEPTH}

PageletPool == {Str("FeedUnit_0"), Str("FeedUnit"), Str("Feed"), Str("FeedStories")}
RolePool == {"article", "feed", "main", "navigation", "banner", "contentinfo", "button"}

\* The elements of the chains: one attribute each, none, or a post
\* container's attribute together with a landmark's; each as an element
\* inside the page and as document.body.
ChainElements ==
    {Element(p, r, b) : p \in PageletPool \cup {<<>>}, r \in {""}, b \in BOOLEAN}
    \cup {Element(<<>>, r, b) : r \in RolePool, b \in BOOLEAN}
    \cup {Element(Str("Feed"), "article", b) : b \in BOOLEAN}
    \cup {Element(Str("FeedUnit_0"), "main", b) : b \in BOOLEAN}

PlainElement == Element(<<>>, "", FALSE)

ChainShape(head, gap, tail) == [head |-> head, gap |-> gap, tail |-> tail]

\* The chain of a shape
ChainOf(shape) ==
    shape.head \o SubSeq([i \in 1..shape.gap |-> PlainElement], 1, shape.gap) \o shape.tail

\* document.body has no ancestor but the root element, which is not on
\* the chains.
BodyLast(chain) == \A i \in 1..(Len(chain) - 1) : ~chain[i].body

ChainTails(maxLen) ==
    UNION {[1..n -> ChainElements] : n \in 0..maxLen}

\* The shapes of chains: the chain is not empty, and document.body is its
\* last element if it is on it.
IsChainShape(shape) ==
    /\ Len(shape.head) + shape.gap + Len(shape.tail) > 0
    /\ BodyLast(shape.head \o shape.tail)
    /\ shape.gap > 0 => \A i \in 1..Len(shape.head) : ~shape.head[i].body

ValidTails == {t \in ChainTails(MaxChainTail) : BodyLast(t)}

InitResolve == InitAround(Compile(<<>>, <<>>), [text |-> 0, config |-> 0])

\* findPostContainer(element), element being the first of the chain
Resolve(shape) ==
    /\ IsChainShape(shape)
    /\ probe' = [NoProbe EXCEPT !.done = TRUE, !.chain = shape,
                                !.container = FindFrom(ChainOf(shape), 1, FIND_MAX_DEPTH)]
    /\ UNCHANGED <<matcher, enabled, blockComments, showPlaceholder, debounceTimer, timers,
                   phase, storage, inflight, text, dom, textCache, armed, last, left>>

NextResolve ==
    \E head \in IF probe.done THEN {} ELSE {<<>>} \cup {<<e>> : e \in ChainElements} :
    \E gap \in GapLengths :
    \E tail \in ValidTails :
        Resolve(ChainShape(head, gap, tail))

SpecResolve == InitResolve /\ [][NextResolve]_vars

(***************************************************************************)
(* Container resolution on a rendered page.  The ancestors the walk sees   *)
(* have bounding boxes; `largest' is the position of the one with the      *)
(* largest area (0 if none of them is rendered), which the page's layout   *)
(* decides and findPostContainer never reads.                              *)
(***************************************************************************)
\* The ancestors of the element that the loop examines and goes past.
SeenAncestors(chain) ==
    {i \in 2..Min(Len(chain), FIND_MAX_DEPTH) :
        \A j \in 1..i : ~chain[j].body /\ ~IsPostContainer(chain[j]) /\ ~IsLandmark(chain[j])}

LastOf(S) == CHOOSE i \in S : \A j \in S : j <= i

InitFallback == InitAround(Compile(<<>>, <<>>), [text |-> 0, config |-> 0])

\* findPostContainer(element) on a page whose layout makes `largest' the
\* largest ancestor seen
ResolveRendered(shape, largest) ==
    /\ IsChainShape(shape)
    /\ IF largest = 0 THEN TRUE ELSE largest \in SeenAncestors(ChainOf(shape))
    /\ probe' = [NoProbe EXCEPT !.done = TRUE, !.chain = shape, !.largest = largest,
                                !.container = FindFrom(ChainOf(shape), 1, FIND_MAX_DEPTH)]
    /\ UNCHANGED <<matcher, enabled, blockComments, showPlaceholder, debounceTimer, timers,
                   phase, storage, inflight, text, dom, textCache, armed, last, left>>

NextFallback ==
    \E head \in IF probe.done THEN {} ELSE {<<>>} \cup {<<e>> : e \in ChainElements} :
    \E gap \in GapLengths :
    \E tail \in {t \in ChainTails(1) : BodyLast(t)} :
    \E largest \in {0, 2} \cup (IF SeenAncestors(ChainOf(ChainShape(head, gap, tail))) = {} THEN {}
                                ELSE {LastOf(SeenAncestors(ChainOf(ChainShape(head, gap, tail))))}) :
        ResolveRendered(ChainShape(head, gap, tail), largest)

SpecFallback == InitFallback /\ [][NextFallback]_vars

(***************************************************************************)
(* The case-sensitive setting.  The options page stores                    *)
(* settings.caseSensitive in chrome.storage.sync; the content script's     *)
(* loadSettings reads the settings and updates the matcher.                *)
(***************************************************************************)
CaseChars == <<"a", "A", "k", "K", " ">>
CaseRuleTexts == UNION {[1..n -> {"a", "A", "k", "K"}] : n \in 1..2}
CaseTexts == UNION {[1..n -> {CaseChars[i] : i \in 1..Len(CaseChars)}] : n \in 0..MaxProbeLen}

InitCase == InitAround(Compile(<<>>, <<>>), [text |-> 0, config |-> 0])

\* loadSettings with one literal rule stored and settings.caseSensitive
\* as the options page saved it: of the settings it reads blockComments
\* and showPlaceholder only.
LoadSettings(w, caseSensitive) ==
    /\ matcher' = Update(matcher, <<Rule(w, FALSE)>>, <<>>)
    /\ probe' = [NoProbe EXCEPT !.caseSensitive = caseSensitive]
    /\ UNCHANGED <<enabled, blockComments, showPlaceholder, debounceTimer, timers,
                   phase, storage, inflight, text, dom, textCache, armed, last, left>>

\* matcher.matches(t) in a scan after loadSettings
CaseMatches(t) ==
    /\ probe' = [probe EXCEPT !.done = TRUE, !.text = t, !.result = Matches(matcher, t),
                              !.calls = 1]
    /\ UNCHANGED <<matcher, enabled, blockComments, showPlaceholder, debounceTimer, timers,
                   phase, storage, inflight, text, dom, textCache, armed, last, left>>

NextCase ==
    \/ \E w \in IF matcher.keywords = <<>> THEN CaseRuleTexts ELSE {} :
       \E caseSensitive \in BOOLEAN : LoadSettings(w, caseSensitive)
    \/ \E t \in IF matcher.keywords = <<>> \/ probe.done THEN {} ELSE CaseTexts : CaseMatches(t)

SpecCase == InitCase /\ [][NextCase]_vars

(***************************************************************************)
(* normalizeText on its own: on every short text over letters with and     *)
(* without marks, in both cases, the stroked letters, combining marks and  *)
(* the space, and on the built-in phrases.                                 *)
(***************************************************************************)
MaxNormalizeLen == 3
NormalizeChars ==
    <<"a", "A", "d", "D", "U+0111", "U+0110", "U+00E0", "U+00C0", "U+01B0", "U+0300", "U+0323",
      "U+212A", " ">>
NormalizeTexts ==
    UNION {[1..n -> {NormalizeChars[i] : i \in 1..Len(NormalizeChars)}] : n \in 0..MaxNormalizeLen}
        \cup {BUILT_IN_ADS_PATTERNS[i] : i \in 1..Len(BUILT_IN_ADS_PATTERNS)}

InitNormalize == InitAround(Compile(<<>>, <<>>), [text |-> 0, config |-> 0])

\* normalizeText(t)
Normalize(t) ==
    /\ probe' = [NoProbe EXCEPT !.done = TRUE, !.text = t, !.normalized = normalizeText(t)]
    /\ UNCHANGED <<matcher, enabled, blockComments, showPlaceholder, debounceTimer, timers,
                   phase, storage, inflight, text, dom, textCache, armed, last, left>>

NextNormalize == \E t \in IF probe.done THEN {} ELSE NormalizeTexts : Normalize(t)

SpecNormalize == InitNormalize /\ [][NextNormalize]_vars

(***************************************************************************)
(* Properties                                                              *)
(***************************************************************************)
\* The engine holds node n hidden / the user has revealed it.
Hidden(r) == r.fbBlocked = "true" \/ r.fbCommentBlocked = "true"
Shown(r) == r.fbBlocked = "shown" \/ r.fbCommentBlocked = "shown"

\* `word' occurs in `txt' at pos, letter case aside.
OccursAt(word, txt, pos) ==
    /\ pos + Len(word) - 1 <= Len(txt)
    /\ \A k \in 1..Len(word) : toLowerCase(txt[pos + k - 1]) = toLowerCase(word[k])

\* `word' occurs in `txt' as a whole word, letter case aside: an occurrence
\* with no character right before or right after it that the class
\* [a-zA-Z0-9] of the matcher's look-arounds accepts.
WholeWordOccurs(word, txt) ==
    \E pos \in 1..(Len(txt) - Len(word) + 1) :
        /\ OccursAt(word, txt, pos)
        /\ IF pos = 1 THEN TRUE ELSE ~ClassAlnumMatches(txt[pos - 1])
        /\ IF pos + Len(word) - 1 = Len(txt) THEN TRUE
           ELSE ~ClassAlnumMatches(txt[pos + Len(word)])

\* `word' occurs in `txt', letter case aside, with no ASCII letter or digit
\* right before or right after the occurrence.
AsciiWholeWordOccurs(word, txt) ==
    \E pos \in 1..(Len(txt) - Len(word) + 1) :
        /\ OccursAt(word, txt, pos)
        /\ IF pos = 1 THEN TRUE ELSE txt[pos - 1] \notin AlnumSet
        /\ IF pos + Len(word) - 1 = Len(txt) THEN TRUE ELSE txt[pos + Len(word)] \notin AlnumSet

\* Some entry of whitelist wl matches txt.
Whitelisted(wl, txt) == \E i \in 1..Len(wl) : WholeWordOccurs(wl[i].text, txt)

\* The events whose task is a scan and nothing else.
ScanEvents == {"init", "timer", "enable"}

\* C1 - Reveal stickiness: in a step that does not run resetHiddenPosts, a
\* node whose post or comment record is 'shown' is not given display 'none'
\* and gets no new affordance.
C1_RevealSticky ==
    [][~last'.reset =>
         \A n \in Nodes :
             Shown(dom[n]) =>
                 /\ dom'[n].display = "none" => dom[n].display = "none"
                 /\ dom'[n].ph <= dom[n].ph
                 /\ dom'[n].cph <= dom[n].cph]_vars

\* C2 - Idempotence: a scan leaves every node that is already Hidden as it
\* is (record, recorded original display, display, affordances) and makes
\* no Stats.increment call for it.
C2_Idempotent ==
    [][last'.ev \in ScanEvents =>
         \A n \in Nodes :
             (InDocument(dom, n) /\ Hidden(dom[n])) =>
                 /\ dom'[n] = dom[n]
                 /\ \A i \in 1..Len(last'.blocks) : last'.blocks[i] # n]_vars

\* C3 - Replace-before-scan: no scan evaluates fragments while a handler
\* that has observed a changed rule set or whitelist still awaits storage,
\* the matcher being the one compiled from the previous rules.
C3_ReplaceBeforeScan == ~last.stale

\* C4 - Whitelist precedence: when some whitelist entry matches the text,
\* matcher.matches returns false, whatever the rules match.
C4_WhitelistPrecedence ==
    (probe.done /\ Whitelisted(matcher.whitelist, probe.text)) => ~probe.result

\* A call of matches on a text that a whitelist entry and a literal rule
\* both match, answered false.
C4_Witness ==
    /\ probe.done
    /\ Whitelisted(matcher.whitelist, probe.text)
    /\ \E i \in 1..Len(matcher.keywords) :
           ~matcher.keywords[i].isRegex /\ WholeWordOccurs(matcher.keywords[i].text, probe.text)
    /\ ~probe.result

\* C5 - Whitelist silences built-in rules: no fragment whose evaluated text
\* a whitelist entry matches is the cause of a hide.
C5_WhitelistSilencesBuiltIn ==
    \A c \in last.causes : ~Whitelisted(matcher.whitelist, c[3])

\* A fragment of the document that method 2 would evaluate and whose text
\* contains a built-in phrase, its container untouched.
BuiltInFragment(n) ==
    /\ n \in TextNodeSelector
    /\ InDocument(dom, n)
    /\ HasDataset[findPostContainer(n)]
    /\ dom[findPostContainer(n)].fbBlocked = NULL
    /\ LET txt == Trim(TextContent(dom, text, n))
       IN  txt # <<>> /\ Len(txt) <= MAX_NODE_TEXT /\ BuiltInHit(txt)

\* C6 - Built-ins with zero user rules: with the engine enabled and the
\* rule set empty, a change notification that leaves a built-in fragment
\* unhidden has armed the timer of a scan.
C6_BuiltInWithoutRules ==
    (/\ phase = "ready" /\ enabled /\ Count(matcher) = 0 /\ inflight = <<>>
     /\ last.ev \in {"notify", "text"}
     /\ \E n \in Nodes : BuiltInFragment(n))
    => debounceTimer = "pending"

\* C7 - Debounce: at most one timeout is pending, and a scan started by the
\* timer runs only when no change notification arrived since the timer was
\* armed.
C7_Debounce ==
    /\ timers <= 1
    /\ (last.ev = "timer" /\ last.scanned) => ~last.afterNotify

\* C8 - A configuration update observed while the timer is pending cancels
\* it: no scan is started by a timer that was armed before the update.
C8_UpdateRestartsWindow ==
    (last.ev = "timer" /\ last.scanned) => ~last.afterConfig

\* C9 - Scan failure isolation: a scan in which one callback threw still
\* evaluated every other fragment of every selector group and the comments.
C9_FailureIsolation == last.threw => last.skipped = {}

\* C10 - Global reset: after resetHiddenPosts (placeholders on) no node of
\* the document carries a record or a recorded original display, none has
\* an affordance, and each has the display the page gave it.
C10_GlobalReset ==
    (last.ev = "disable" /\ showPlaceholder) =>
        \A n \in Nodes :
            InDocument(dom, n) =>
                /\ dom[n].fbBlocked = NULL
                /\ dom[n].fbCommentBlocked = NULL
                /\ dom[n].originalDisplay = NULL
                /\ dom[n].ph = 0 /\ dom[n].cph = 0
                /\ dom[n].display = PageDisplay[n]

\* C11 - Hide then reveal is a round trip: from the record of any node of
\* any reachable document, hidePost (hideComment) with placeholders on and
\* then the click on the affordance it inserted give back the display the
\* node had, leave no more affordances than before and set the record to
\* 'shown'.
C11_HideRevealRoundTrip ==
    \A n \in Nodes :
        HasDataset[n] =>
            LET s0 == ScanStart(dom, textCache)
                p  == ShowPost(hidePost(s0, n, TRUE).dom[n])
                c  == ShowComment(hideComment(s0, n, TRUE).dom[n])
            IN  /\ p.display = dom[n].display /\ p.ph = dom[n].ph /\ p.fbBlocked = "shown"
                /\ c.display = dom[n].display /\ c.cph = dom[n].cph
                /\ c.fbCommentBlocked = "shown"

\* A post the engine hid and the user revealed by a click, back at the
\* display the page gave it, which is not the default.
C11_Witness ==
    /\ last.ev = "show"
    /\ \E n \in Nodes :
           /\ dom[n].fbBlocked = "shown" /\ dom[n].fbCommentBlocked = NULL
           /\ PageDisplay[n] = "block" /\ dom[n].display = "block" /\ dom[n].ph = 0

\* The matcher holds one literal rule and no whitelist.
OneLiteralRule ==
    /\ Len(matcher.keywords) = 1 /\ ~matcher.keywords[1].isRegex
    /\ matcher.whitelist = <<>>

\* C12 - Boundary correctness: with one literal rule R and no whitelist,
\* matches(T) is true exactly when R occurs in T, letter case aside, with
\* no ASCII letter or digit right before or right after it.
C12_BoundaryCorrectness ==
    (probe.done /\ OneLiteralRule) =>
        (probe.result <=> AsciiWholeWordOccurs(matcher.keywords[1].text, probe.text))

\* Every rule of the matcher is a literal rule.
AllLiteral == \A i \in 1..Len(matcher.keywords) : ~matcher.keywords[i].isRegex

\* Some literal rule's text occurs in txt as a whole word.
SomeLiteralOccurs(txt) ==
    \E i \in 1..Len(matcher.keywords) :
        ~matcher.keywords[i].isRegex /\ WholeWordOccurs(matcher.keywords[i].text, txt)

\* C13 - Escaping safety: compile never throws on literal rules and
\* whitelist entries that hold regex metacharacters, and a matcher of
\* literal rules answers true only on a literal whole-word occurrence of one
\* of its rules' texts (and exactly then, unless the whitelist matches).
C13_EscapingSafety ==
    /\ ~matcher.threw
    /\ (probe.done /\ AllLiteral) =>
           (probe.result <=>
               (SomeLiteralOccurs(probe.text) /\ ~Whitelisted(matcher.whitelist, probe.text)))

\* A matcher whose literal rules are "." and "(" answered a text that holds
\* neither: false; and a text that holds "(": true.
C13_Witness ==
    /\ probe.done /\ AllLiteral /\ ~matcher.threw
    /\ \E i \in 1..Len(matcher.keywords) : matcher.keywords[i].text = Str("(")
    /\ \E i \in 1..Len(matcher.keywords) : matcher.keywords[i].text = Str(".")
    /\ \/ ~probe.result /\ probe.text = Str("a")
       \/ probe.result /\ probe.text = Str("a (")

\* A pattern rule whose source new RegExp rejects.
FailsToCompile(kw) == kw.isRegex /\ ~Parse(kw.text).ok

\* The rule set with the pattern rules that fail to compile taken out.
WithoutFailing(kws) == SelectSeq(kws, LAMBDA kw : ~FailsToCompile(kw))

\* C17 - Pattern failure isolation: a pattern rule that fails to compile is
\* skipped without compile throwing, and the matcher answers every text as
\* the matcher built from the rule set without that rule answers it.
C17_PatternFailureIsolation ==
    /\ ~matcher.threw
    /\ probe.done =>
           probe.result =
               Matches(Compile(WithoutFailing(matcher.keywords), matcher.whitelist), probe.text)

\* A matcher whose first rule is a pattern that does not compile and whose
\* second rule is a pattern that matches the probed text.
C17_Witness ==
    /\ probe.done /\ probe.result /\ ~matcher.threw
    /\ Len(matcher.keywords) = 2
    /\ FailsToCompile(matcher.keywords[1])
    /\ matcher.keywords[2].isRegex /\ ~FailsToCompile(matcher.keywords[2])

\* The matcher as compile built it, before any call of matches.
Fresh(m) == Compile(m.keywords, m.whitelist)

\* C14 - No cursor leak: matches(T) answers as a matcher that was never
\* called answers, whatever calls came before, and lastIndex of every
\* RegExp is 0 when its test starts.
C14_NoCursorLeak ==
    probe.done =>
        /\ probe.result = MatchesCall(Fresh(matcher), probe.text).result
        /\ probe.result = Matches(matcher, probe.text)
        /\ probe.starts \subseteq {0}

\* A second call, answered true, on a matcher one of whose RegExps the
\* first call left with a lastIndex at or behind the end of the second text.
C14_Witness ==
    /\ probe.calls = 2 /\ probe.result /\ probe.starts = {0}
    /\ \E c \in probe.cursors : c >= Len(probe.text)

\* Rule kw, compiled alone, matches txt.
RuleMatches(kw, txt) ==
    IF kw.isRegex THEN ~FailsToCompile(kw) /\ RegExpTest(NewRegExp(kw.text, FALSE), txt)
    ELSE WholeWordOccurs(kw.text, txt)

\* One of the rules kws[i], i in idx, that satisfy Counts matches the probed
\* text, and no whitelist entry does.
ProbeExpected(kws, idx, Counts(_)) ==
    /\ ~Whitelisted(probe.whitelist, probe.text)
    /\ \E i \in idx : Counts(i) /\ RuleMatches(kws[i], probe.text)

\* C15 - Overflow containment (count): with more than MAX_KEYWORDS rules
\* compile does not throw, and matches answers true exactly when one of the
\* first MAX_KEYWORDS rules matches the text (and the whitelist does not):
\* each of them still matches, and no rule behind them causes a match.
C15_OverflowCount ==
    probe.done =>
        LET kws == RuleSetOf(probe.rules) IN
        Len(kws) > MAX_KEYWORDS =>
            /\ ~probe.threw
            /\ probe.result <=> ProbeExpected(kws, 1..MAX_KEYWORDS, LAMBDA i : TRUE)

\* More than MAX_KEYWORDS rules, the probed text matched by the rule right
\* behind the limit only: answered false.
C15_Witness ==
    /\ probe.done /\ ~probe.result /\ probe.whitelist = <<>>
    /\ probe.rules.n > MAX_KEYWORDS /\ probe.rules.p = MAX_KEYWORDS + 1
    /\ RuleMatches(OverflowRules[probe.rules.r], probe.text)

\* The merged literal pattern of the rule set exceeds the size limit.
Oversize(kws) ==
    WrapperLen + Len(JoinBar(PlainKeywords(SafeKeywords(kws)))) > MAX_PATTERN_SIZE

\* Rule i is a literal rule and the literal rules up to it, merged, are
\* within the size limit.
FitsWithin(kws, i) ==
    /\ ~kws[i].isRegex
    /\ WrapperLen + Len(JoinBar(PlainKeywords(SubSeq(kws, 1, i)))) <= MAX_PATTERN_SIZE

\* C16 as the specification states it - Overflow containment (size): when
\* the merged literal pattern exceeds MAX_PATTERN_SIZE, compile does not
\* throw and only the excess stops matching: the literal rules that fit
\* within the limit and the pattern rules keep matching.
C16_OverflowSizeExcessOnly ==
    probe.done =>
        LET kws == RuleSetOf(probe.rules) IN
        Oversize(kws) =>
            /\ ~probe.threw
            /\ probe.result <=>
                 ProbeExpected(kws, 1..Len(SafeKeywords(kws)),
                               LAMBDA i : kws[i].isRegex \/ FitsWithin(kws, i))

\* C16 - Overflow containment (size), amended: when the merged literal
\* pattern exceeds MAX_PATTERN_SIZE, compile does not throw, no literal rule
\* matches any more, and the pattern rules keep matching.
C16_OverflowSize ==
    probe.done =>
        LET kws == RuleSetOf(probe.rules) IN
        Oversize(kws) =>
            /\ ~probe.threw
            /\ probe.result <=> ProbeExpected(kws, 1..Len(SafeKeywords(kws)), LAMBDA i : kws[i].isRegex)

\* A rule set one character over the limit, with a pattern rule that
\* matches the probed text, answered true; and one whose literal rule "a"
\* occurs in the probed text, answered false.
C16_Witness ==
    /\ probe.done /\ probe.rules.big = BigLen - 1 /\ probe.whitelist = <<>>
    /\ \/ probe.rules.r = 2 /\ probe.result
       \/ probe.rules.r = 1 /\ probe.text = Str("a") /\ ~probe.result

\* A group whose text up to the first ")" ends in a quantifier (white space
\* aside) and that is itself quantified: (X+)+
NestedQuantifiedGroup(p) ==
    \E i \in 1..Len(p) : p[i] = "(" /\
    \E j \in (i + 1)..Len(p) : p[j] \in Quantifiers /\
    \E k \in (j + 1)..Len(p) : p[k] = ")" /\
    \E l \in (k + 1)..Len(p) : p[l] \in Quantifiers /\
        /\ \A x \in (i + 1)..(j - 1) : p[x] # ")"
        /\ \A x \in (j + 1)..(k - 1) \cup (k + 1)..(l - 1) : p[x] \in WhiteSpace

\* A quantified group with a top-level "|" before its first ")": (A|B)*
QuantifiedAlternation(p) ==
    \E i \in 1..Len(p) : p[i] = "(" /\
    \E b \in (i + 1)..Len(p) : p[b] = "|" /\
    \E k \in (b + 1)..Len(p) : p[k] = ")" /\
    \E l \in (k + 1)..Len(p) : p[l] \in Quantifiers /\
        /\ \A x \in (i + 1)..(b - 1) : p[x] \notin {")", "|"}
        /\ \A x \in (b + 1)..(k - 1) : p[x] # ")"
        /\ \A x \in (k + 1)..(l - 1) : p[x] \in WhiteSpace

\* C19 - validate returns valid = true exactly when the pattern is a
\* non-empty string, compiles, has neither catastrophic shape and the probe
\* ran within maxDuration; otherwise valid = false with the error of the
\* first gate that fails, in the order required, syntax, shape, probe.
C19_ValidatorGates ==
    probe.done =>
        LET p        == probe.text
            required == p # <<>> /\ p # NonString
            syntax   == SyntaxScan(p, 1, 0, FALSE)
            shape    == ~NestedQuantifiedGroup(p) /\ ~QuantifiedAlternation(p)
            inTime   == probe.elapsed <= DefaultMaxDuration
        IN  /\ probe.result <=> (required /\ syntax /\ shape /\ inTime)
            /\ probe.error =
                 IF ~required THEN "Pattern required"
                 ELSE IF ~syntax THEN "Invalid regex"
                 ELSE IF ~shape THEN "Pattern may cause performance issues"
                 ELSE IF ~inTime THEN "Pattern too slow"
                 ELSE NULL

\* The pattern (a+)+ probed in time and rejected for its shape; a pattern
\* of an unclosed group probed too slowly and rejected for its syntax.
C19_Witness ==
    /\ probe.done /\ ~probe.result
    /\ \/ /\ probe.text = Str("(a+)+") /\ probe.elapsed = DefaultMaxDuration
          /\ probe.error = "Pattern may cause performance issues"
       \/ /\ probe.text = Str("(a") /\ probe.elapsed > DefaultMaxDuration
          /\ probe.error = "Invalid regex"

MarkedAt(chain) ==
    {i \in 1..Min(Len(chain), FIND_MAX_DEPTH) :
        \/ chain[i].role = "article"
        \/ /\ Len(chain[i].pagelet) >= 8
           /\ SubSeq(chain[i].pagelet, 1, 8) = <<"F", "e", "e", "d", "U", "n", "i", "t">>}
BarrierAt(chain) ==
    {i \in 1..Len(chain) :
        \/ chain[i].body
        \/ chain[i].pagelet = <<"F", "e", "e", "d">>
        \/ chain[i].role \in {"feed", "main", "navigation", "banner", "contentinfo"}}
Nearest(S) == CHOOSE i \in S : \A j \in S : i <= j

\* C20 as stated - Container resolution returns the nearest node on the
\* chain from the fragment upward (fragment included) that carries a
\* FeedUnit pagelet attribute or role article, whenever such a node lies
\* within the 50-step depth bound and no landmark node or document.body
\* precedes it on the chain.
C20_NearestContainerAsStated ==
    probe.done =>
        LET chain == ChainOf(probe.chain) IN
        (/\ MarkedAt(chain) # {}
         /\ \A j \in BarrierAt(chain) : j >= Nearest(MarkedAt(chain)))
        => probe.container = Nearest(MarkedAt(chain))

\* C20 - Container resolution returns the nearest node on the chain from
\* the fragment upward (fragment included) that carries a FeedUnit pagelet
\* attribute or role article, whenever such a node lies within the 50-step
\* depth bound, is not document.body, and no landmark node or
\* document.body precedes it on the chain.
C20_NearestContainer ==
    probe.done =>
        LET chain == ChainOf(probe.chain) IN
        (/\ MarkedAt(chain) # {}
         /\ ~chain[Nearest(MarkedAt(chain))].body
         /\ \A j \in BarrierAt(chain) : j >= Nearest(MarkedAt(chain)))
        => probe.container = Nearest(MarkedAt(chain))

\* The walk takes its last step: the fiftieth element of the chain is one
\* with pagelet FeedUnit_0 and role main, under forty-nine elements that
\* carry neither attribute, and it is the element returned.
C20_Witness ==
    /\ probe.done
    /\ Len(ChainOf(probe.chain)) >= FIND_MAX_DEPTH
    /\ probe.container = FIND_MAX_DEPTH
    /\ ChainOf(probe.chain)[FIND_MAX_DEPTH].role = "main"

\* C21 - Container resolution fallback: when no marked unit is found
\* before the depth bound or a landmark, findPostContainer returns the
\* largest-area ancestor seen during the walk, and returns the original
\* fragment only when no such ancestor exists.
C21_LargestAreaFallback ==
    probe.done =>
        LET chain == ChainOf(probe.chain) IN
        (MarkedAt(chain) = {} \/ \E j \in BarrierAt(chain) : j < Nearest(MarkedAt(chain)))
        => probe.container = IF probe.largest = 0 THEN 1 ELSE probe.largest

\* C22 - The engine never hides a page-level region: for every fragment,
\* the node returned by findPostContainer is neither a landmark node (Feed
\* pagelet, role feed, main, navigation, banner or contentinfo), nor an
\* ancestor of one, nor document.body.
C22_NeverPageLevel ==
    probe.done =>
        \A j \in BarrierAt(ChainOf(probe.chain)) : j > probe.container

\* `word' occurs in `txt' with identical letter case.
ExactOccurs(word, txt) ==
    \E pos \in 1..(Len(txt) - Len(word) + 1) :
        \A k \in 1..Len(word) : txt[pos + k - 1] = word[k]

\* C23 - Case sensitivity is honoured: when the case-sensitive setting is
\* on, a literal rule matches only text with identical letter case (rule
\* SPAM does not match spam); when it is off the match is case-insensitive.
C23_CaseSensitivity ==
    probe.done =>
        LET word == matcher.keywords[1].text IN
        IF probe.caseSensitive THEN probe.result => ExactOccurs(word, probe.text)
        ELSE WholeWordOccurs(word, probe.text) => probe.result

\* The unmarked ASCII equivalent of a text: every letter without its
\* marks and strokes, in its own case.
AsciiLetter(c) ==
    CASE c \in {"U+00E0", "U+1EA1", "U+1EA5"} -> "a"
      [] c = "U+00C0" -> "A"
      [] c \in {"U+1EC1", "U+1EBF"} -> "e"
      [] c \in {"U+1ED9", "U+1EE3"} -> "o"
      [] c = "U+01B0" -> "u"
      [] c = "U+0111" -> "d"
      [] c = "U+0110" -> "D"
      [] c = "U+212A" -> "K"
      [] OTHER -> c
AsciiEquivalent(txt) ==
    LET letters == SelectSeq(txt, LAMBDA c : c \notin {"U+0300", "U+0301", "U+031B", "U+0323"})
    IN  [i \in 1..Len(letters) |-> AsciiLetter(letters[i])]

\* The letters toLowerCase changes.
UpperCaseLetters ==
    {"A", "B", "C", "D", "E", "F", "G", "H", "I", "J", "K", "L", "M", "N", "O", "P", "Q", "R",
     "S", "T", "U", "V", "W", "X", "Y", "Z", "U+00C0", "U+0110", "U+212A"}

\* C24 - normalizeText is idempotent and maps a diacritic-bearing phrase
\* and its unmarked ASCII equivalent to the same string; its output
\* contains no combining mark, no upper-case letter and no stroked d.
C24_NormalizeText ==
    probe.done =>
        /\ normalizeText(probe.normalized) = probe.normalized
        /\ normalizeText(AsciiEquivalent(probe.text)) = probe.normalized
        /\ \A i \in 1..Len(probe.normalized) :
               /\ probe.normalized[i] \notin {"U+0300", "U+0301", "U+031B", "U+0323"}
               /\ probe.normalized[i] \notin UpperCaseLetters
               /\ probe.normalized[i] \notin {"U+0110", "U+0111"}

\* The built-in phrase with its marks and its stroked capital D has been
\* normalized to "duoc tai tro".
C24_Witness ==
    /\ probe.done
    /\ probe.text = BUILT_IN_ADS_PATTERNS[1]
    /\ probe.text # AsciiEquivalent(probe.text)
    /\ probe.normalized = <<"d", "u", "o", "c", " ", "t", "a", "i", " ", "t", "r", "o">>

\* C25 - Successful migration: when sync storage holds v1 keywords (n
\* entries) and version is not 2, migrateV1ToV2 ends with local keywords
\* holding n v2 records with the same texts in the same order (category
\* default, isRegex false, caseSensitive false for plain strings), sync
\* version 2, sync keywords removed, sync enabled preserved, and returns
\* migrated true with count n.
C25_SuccessfulMigration ==
    LET m == probe.migration IN
    (/\ probe.done /\ ~m.result.error
     /\ m.before.version # 2 /\ m.before.hasSync /\ Len(m.before.sync) >= 1)
    => /\ Len(m.after.keywords) = Len(m.before.sync)
       /\ \A i \in 1..Len(m.before.sync) :
              /\ m.after.keywords[i].text = m.before.sync[i].rule.text
              /\ ~m.before.sync[i].isObject =>
                     /\ m.after.keywords[i].category = "default"
                     /\ ~m.after.keywords[i].isRegex
                     /\ ~m.after.keywords[i].caseSensitive
       /\ m.after.version = 2
       /\ ~m.after.hasSync
       /\ (m.after.enabled = "false") = (m.before.enabled = "false")
       /\ m.result.migrated /\ m.result.count = Len(m.before.sync)

\* A v1 list of two different entries has been migrated over local
\* keywords that held something else, with the extension disabled.
C25_Witness ==
    LET m == probe.migration IN
    /\ probe.done /\ m.result.migrated /\ m.result.count = 2
    /\ m.before.sync[1] # m.before.sync[2]
    /\ ~m.before.sync[1].isObject
    /\ m.before.keywords # <<>>
    /\ m.before.enabled = "false"
    /\ storage = m.after

\* C26 - Migration is one-time: running migrateV1ToV2 again after a run
\* that set version 2 returns migrated false with count 0 and writes
\* nothing to sync or local storage, whatever keywords were added to local
\* storage in between.
C26_MigrationOneTime ==
    LET m == probe.migration IN
    (probe.done /\ m.before.version = 2)
    => /\ ~m.result.migrated /\ m.result.count = 0 /\ ~m.result.error
       /\ m.after = m.before

\* A second call after a run that set version 2 but could not remove the
\* v1 list, a keyword having been added in between.
C26_Witness ==
    LET m == probe.migration IN
    /\ probe.done /\ m.before.version = 2
    /\ m.before.hasSync /\ m.before.sync # <<>>
    /\ Len(m.before.keywords) > Len(m.before.sync)
    /\ storage = m.before

\* C27 - Migration with no v1 keywords: when sync storage holds no
\* keywords to migrate (the keywords key is absent or is an empty list)
\* and version is not 2, migrateV1ToV2 only sets sync version 2, leaves
\* local keywords unchanged and returns migrated false with count 0.
C27_NothingToMigrate ==
    LET m == probe.migration IN
    (/\ probe.done /\ ~m.result.error
     /\ m.before.version # 2
     /\ ~m.before.hasSync \/ m.before.sync = <<>>)
    => /\ m.after = [m.before EXCEPT !.version = 2]
       /\ ~m.result.migrated /\ m.result.count = 0

\* C28: after update(K, W) the matcher answers every text as a matcher
\* newly constructed over K and W does, and its literal, pattern and
\* whitelist RegExps are the ones such a matcher has, whatever rule set and
\* whitelist it was constructed over before; also when K is empty and when
\* the literal pattern of K is too large to compile.
C28_UpdateRecompiles ==
    probe.done =>
        LET fresh == Compile(RuleSetNamed(probe.update.to), probe.whitelist)
        IN  /\ probe.result = Matches(fresh, probe.text)
            /\ probe.update.compiled = CompiledOf(fresh)

\* An update to the empty rule set, of a matcher that blocked the text.
C28_Witness ==
    /\ probe.done
    /\ probe.update.to = [rules |-> <<>>, big |-> 0]
    /\ Matches(Compile(probe.update.from.rules, probe.update.from.whitelist), probe.text)
    /\ ~probe.result


\* C29: after any sequence of single adds, bulk adds, imports and deletes
\* from the popup and the options page, chrome.storage.local keywords holds
\* at most MAX_KEYWORDS rules.
C29_StoredWithinLimit == Len(storage.keywords) <= MAX_KEYWORDS

\* C30: with showPlaceholder off, a container a task emits a block event
\* for is out of the document after the task, with no affordance beside it
\* and no visibility record on it, and the task emitted one block event
\* for it; and no task (reset, settings change, disable or other) changes
\* a removed container or brings it back into the document.
C30_RemovedForGood ==
    [][\A n \in Nodes :
         /\ (~showPlaceholder' /\ \E i \in DOMAIN last'.blocks : last'.blocks[i] = n)
            => /\ ~dom'[n].attached
               /\ ~InDocument(dom', n)
               /\ dom'[n].ph = 0 /\ dom'[n].cph = 0
               /\ dom'[n].fbBlocked = NULL /\ dom'[n].fbCommentBlocked = NULL
               /\ dom'[n].originalDisplay = NULL
               /\ Cardinality({i \in DOMAIN last'.blocks : last'.blocks[i] = n}) = 1
         /\ ~dom[n].attached => dom'[n] = dom[n]
         /\ ~InDocument(dom, n) => ~InDocument(dom', n)]_vars

\* The extension is disabled (a reset) after a scan without placeholder
\* removed a container.
C30_Witness ==
    /\ last.ev = "disable" /\ last.reset
    /\ ~showPlaceholder
    /\ \E n \in Nodes : ~dom[n].attached

\* C31: once every Stats.increment call made has completed, the stored
\* stats.total has grown by the number of calls made (one per container the
\* scans hid).
C31_NoLostBlockEvent ==
    probe.stats.pending = <<>> => probe.stats.stored.total = probe.stats.calls

\* An element the engine has no record on.
Untouched(r) == r.fbBlocked = NULL /\ r.fbCommentBlocked = NULL

\* C32: with showPlaceholder on, an element of the document has a Hidden
\* record exactly when one reveal affordance made for it is in the
\* document, its display is 'none' and its original display is recorded;
\* an element that is Shown or Untouched has no affordance.
C32_AffordanceInvariant ==
    showPlaceholder =>
        \A n \in Nodes :
            InDocument(dom, n) =>
                /\ Hidden(dom[n]) <=> /\ dom[n].ph + dom[n].cph = 1
                                      /\ dom[n].display = "none"
                                      /\ dom[n].originalDisplay # NULL
                /\ (Shown(dom[n]) \/ Untouched(dom[n])) => dom[n].ph + dom[n].cph = 0

\* C33: in every state the script is in after it has handled a change
\* that disabled the engine or emptied the rule set, and for as long as the
\* engine is disabled or without rules, no element of the document is
\* Hidden, none has an affordance, and the task that led to the state (a
\* debounce timer that was pending, a notification, a handler resumed
\* late) hid nothing.
C33_QuietWhenOff ==
    (phase = "ready" /\ (~enabled \/ Count(matcher) = 0)) =>
        /\ last.blocks = <<>>
        /\ \A n \in Nodes :
               InDocument(dom, n) =>
                   ~Hidden(dom[n]) /\ dom[n].ph = 0 /\ dom[n].cph = 0

\* A debounce timer that was pending when the engine was disabled has
\* fired, with a post whose text a rule matches in the document.
C33_Witness ==
    /\ last.ev = "timer"
    /\ ~enabled /\ Count(matcher) > 0
    /\ \E n \in Leaves : InDocument(dom, n) /\ matcherMatches(matcher, TextPool[text[n]])

\* Nothing is under way: the script is initialised, no handler awaits
\* storage and no debounce timer is pending.
Settled == phase = "ready" /\ inflight = <<>> /\ timers = 0

\* The script's configuration is the stored one.
ConfigurationLoaded ==
    /\ matcher.keywords = RuleSets[storage.keywords]
    /\ matcher.whitelist = Whitelists[storage.whitelist]
    /\ enabled = storage.enabled
    /\ blockComments = storage.blockComments
    /\ showPlaceholder = storage.showPlaceholder

\* The elements of document d that are Hidden.
HiddenIn(d) == {n \in Nodes : InDocument(d, n) /\ Hidden(d[n])}

\* The elements Hidden after a reset and a scan of the document with the
\* stored configuration, those the user has revealed aside.
HiddenByStoredScan ==
    LET s == filterContent(resetHiddenPosts(ScanStart(dom, [n \in Nodes |-> <<>>])),
                           Compile(RuleSets[storage.keywords], Whitelists[storage.whitelist]),
                           storage.enabled, storage.blockComments, storage.showPlaceholder, text)
    IN  {n \in HiddenIn(s.dom) : ~Shown(dom[n])}

\* C34, first part: once every handler has completed and no timer is
\* pending, rule set, whitelist, enabled, blockComments and showPlaceholder
\* of the script equal the stored values.
C34_ConfigurationConverges == Settled => ConfigurationLoaded

\* C34: ... and the Hidden elements are those a scan with the stored
\* configuration produces.
C34_Convergence ==
    Settled => ConfigurationLoaded /\ HiddenIn(dom) = HiddenByStoredScan

\* The elements the post selectors of filterContent match.
PostElements == UNION {PostSelectors[i] : i \in 1..Len(PostSelectors)}

\* C35: when the debounce timer armed by the notification of a text change
\* fires while the engine is enabled, every Untouched post whose text a user
\* rule now matches (no whitelist entry matching) has its container hidden
\* or removed by that scan, whatever the text cache holds.
C35_MatchingPostHidden ==
    [][(last.ev = "text" /\ last'.ev = "timer" /\ enabled /\ Count(matcher) > 0) =>
           \A n \in PostElements :
               (/\ InDocument(dom, n)
                /\ Untouched(dom[n]) /\ Untouched(dom[findPostContainer(n)])
                /\ matcherMatches(matcher, TextContent(dom, text, n)))
               => \/ Hidden(dom'[findPostContainer(n)])
                  \/ ~InDocument(dom', findPostContainer(n))]_vars

\* The scans the engine's own edits may cause on the page of SpecLoop:
\* every scan that changes something hides or removes an element of the
\* page that no later scan touches, and one last scan changes nothing.
QuiesceBound == Cardinality(LoopPage) + 1

\* C36: with no change by the page and no user action, the notifications
\* the engine's own edits cause lead to a bounded number of scans: once that
\* many scans have run since the last outside event, no timer is pending.
C36_Quiescence == probe.loop.timer => probe.loop.scans < QuiesceBound

\* A change notification has just been delivered to the observer while the
\* engine is enabled with a rule.
Notified ==
    /\ last.ev \in {"notify", "text"}
    /\ phase = "ready" /\ enabled /\ Count(matcher) > 0

\* The debounce timer has just run filterContent, and the scan took place
\* unless the engine had been disabled or left without a rule meanwhile.
ScanFollowed ==
    /\ last.ev = "timer"
    /\ last.scanned \/ ~enabled \/ Count(matcher) = 0

\* C37: while the engine is enabled with a rule, a notification sets the
\* debounce timer and is followed by a scan, also when a scan of an earlier
\* task threw.
C37_NoStuckDebounce ==
    /\ [](Notified => timers > 0)
    /\ Notified ~> ScanFollowed
    /\ (Notified /\ (last.threw \/ last.threwEarlier)) ~> (ScanFollowed /\ last.threwEarlier)

\* A scan started by the timer after a scan of an earlier task had thrown.
C37_Witness ==
    /\ last.ev = "timer" /\ last.scanned /\ last.threwEarlier
    /\ enabled /\ Count(matcher) > 0

\* Every text of the v1 list is in store st: in the keywords of
\* chrome.storage.sync or in those of chrome.storage.local.
KeepsV1(st) ==
    \A i \in 1..Len(st.v1) :
        \/ st.hasSync /\ \E j \in 1..Len(st.sync) : st.sync[j].rule.text = st.v1[i].rule.text
        \/ \E j \in 1..Len(st.keywords) : st.keywords[j].text = st.v1[i].rule.text

\* The stores at the points of a call of migrateV1ToV2 on store st: as read,
\* and after each of the storage calls it makes.
MigrationPoints(st) ==
    IF st.version = 2 \/ ~st.hasSync THEN {st, MigrateV1ToV2(st)}
    ELSE {st, StoreBefore("sync.set", st), StoreBefore("sync.remove", st), MigrateV1ToV2(st)}

\* C38: at every point of migrateV1ToV2, whichever storage call of an
\* earlier run has failed, every text of the v1 list is in sync storage or
\* in local storage.
C38_MigrationKeepsKeywords == \A st \in MigrationPoints(storage) : KeepsV1(st)

\* A migration retried with success after a run that wrote the local
\* keywords and failed at chrome.storage.sync.set: the local keywords it
\* found are the two equal strings of the v1 list, which no handler of the
\* popup or the options page stores.
C38_Witness ==
    LET m == probe.migration IN
    /\ probe.done /\ m.result.migrated /\ storage = m.after
    /\ Len(m.before.sync) = 2 /\ m.before.sync[1] = m.before.sync[2]
    /\ m.before.keywords = AfterLocalSet(m.before).keywords
    /\ storage.v1 = m.before.sync

====
